---- MODULE Spec2Model ----
(***************************************************************************)
(* Model of the PhotoSort analysis pipeline                                *)
(*   src/src/services/analysisService.ts  (analyzePhotos, hashPhotos,      *)
(*       buildDateBuckets, compareAndGroup, hammingDistance, similarity)   *)
(*   src/src/components/folders/FolderPicker.tsx (handleStartAnalysis,     *)
(*       handleCancelAnalysis)                                             *)
(*   src/src/stores/photoStore.ts (setAnalysisProgress, startAnalysis,     *)
(*       stopAnalysis, addToTrash, restoreFromTrash, emptyTrash,           *)
(*       trashSelected)                                                    *)
(*   src/src/workers/hashWorker.ts (quality scores of self.onmessage,      *)
(*       computeBlurScore, computeLaplacianVariance, computeExposureScore) *)
(*   src/unnamed/part_001, the file system service (scanDirectory,         *)
(*       getBlobUrl, getFullBlobUrl, preloadBlobUrls, revokeBlobUrl,       *)
(*       revokeAllBlobUrls, deleteFiles)                                   *)
(*                                                                         *)
(* Similarities are the code's floating point values multiplied by Scale   *)
(* (= HASH_BITS * 100), which makes every value the code can produce an    *)
(* integer: similarity = 1 - dist/256 becomes Scale - 100*dist, and a      *)
(* threshold of T percent (the slider value / 100) becomes T * HASH_BITS.  *)
(***************************************************************************)
EXTENDS Integers, Sequences, FiniteSets, TLC

----------------------------------------------------------------------------
(* Bounds of the model *)

MaxPhotos == 3          \* photos found by the scan, 0..MaxPhotos
MaxFolders == 2         \* active folders scanned before the analysis
MaxImages == 3          \* hashed images handed to compareAndGroup
MaxCores == 10          \* hardwareConcurrency and item counts of WorkerCount

----------------------------------------------------------------------------
(* Program constants *)

HASH_BITS == 256
HASH_SIZE == 16
DAY_MS == 86400000
MAX_WORKERS == 8
DEFAULT_CONCURRENCY == 4
DEFAULT_THRESHOLD == 85

HashBytes == (HASH_SIZE * HASH_SIZE) \div 8
Scale == HASH_BITS * 100

VARIABLES
    \* ---- inputs of one analysis
    photos,             \* Photo[] : sequence of photo ids
    hashOf,             \* id -> Uint8Array the worker computes for the photo
    createdAt,          \* id -> Photo.createdAt
    threshold,          \* similarity threshold in percent
    hardwareConcurrency,\* navigator.hardwareConcurrency (0 = undefined)
    \* ---- FolderPicker / store
    callerPc,           \* position of handleStartAnalysis
    scansLeft,          \* folders still to scan
    abortRef,           \* abortRef.current # null
    aborted,            \* abort.signal.aborted
    isAnalyzing,        \* store.isAnalyzing
    analysisProgress,   \* store.analysisProgress
    progressLog,        \* every value passed to the progress callback
    \* ---- analyzePhotos / hashPhotos
    apPc,               \* position of analyzePhotos
    apResult,           \* value analyzePhotos returned
    listener,           \* the abort listener of hashPhotos is registered
    queue,              \* const queue = [...photos]
    workers,            \* number of Worker objects created
    terminated,         \* workers on which terminate() was called
    reading,            \* <<worker, id>> : getFileArrayBuffer pending
    pulled,             \* <<worker, id>> of every queue.shift(), in order
    posted,             \* every postMessage: <<worker, id, signal.aborted,
                        \*   the worker was terminated>>
    inbox,              \* <<worker, id>> : posted to the worker, not answered
    lost,               \* ids posted to / held by a terminated worker
    failed,             \* ids whose read or decode failed
    results,            \* const results: HashResult[] (ids, arrival order)
    completed,          \* let completed
    hpResolved,         \* the promise of hashPhotos is settled
    hpValue,            \* the value it was resolved with
    \* ---- compareAndGroup applied on its own
    cPc,
    cOut,
    \* ---- hammingDistance / similarity applied on their own
    fpPc,
    fpA,                \* a: Uint8Array
    fpB,                \* b: Uint8Array
    fpOut,              \* the values returned
    \* ---- the hash worker's quality scoring of one image
    exPc,
    image,              \* the decoded bitmap drawn at quality resolution
    exOut,              \* the message the worker posts
    \* ---- photoStore: photos and the internal trash
    storePhotos,        \* store.photos: Photo[]
    similarityGroups,   \* store.similarityGroups: the photos of each group
    trashItems,         \* store.trashItems: TrashItem[]
    nextPhotoId,        \* the next id crypto.randomUUID gives to a photo
    nextItemId,         \* the next id crypto.randomUUID gives to a trash item
    scans,              \* analyses completed
    lastOp,             \* the restore that ran last, if the last action was one
    \* ---- fileSystemService: the registries and the object URLs
    fileRegistry,       \* ids that have an entry in fileRegistry
    blobUrlRegistry,    \* id -> full-resolution blob URL
    thumbUrlRegistry,   \* id -> thumbnail blob URL
    urlCalls,           \* getBlobUrl / getFullBlobUrl calls awaiting getFile()
    objectUrls,         \* every URL.createObjectURL: [url, id, kind]
    revokedUrls,        \* every URL passed to URL.revokeObjectURL
    nextUrl,            \* the next URL createObjectURL returns
    nextCall,           \* calls made so far, plus 1
    \* ---- fileSystemService: deleteFiles
    del,                \* the call of deleteFiles: position and locals
    disk,               \* ids whose file is in its directory
    removedFiles        \* ids whose file removeEntry removed

inputVars == <<photos, hashOf, createdAt, threshold, hardwareConcurrency>>
callerVars == <<callerPc, scansLeft, abortRef, aborted, isAnalyzing,
                analysisProgress, progressLog>>
poolVars == <<apPc, apResult, listener, queue, workers, terminated, reading,
              pulled, posted, inbox, lost, failed, results, completed,
              hpResolved, hpValue>>
clusterVars == <<cPc, cOut>>
fingerprintVars == <<fpPc, fpA, fpB, fpOut>>
extractorVars == <<exPc, image, exOut>>
storeVars == <<storePhotos, similarityGroups, trashItems, nextPhotoId,
               nextItemId, scans, lastOp>>
urlVars == <<fileRegistry, blobUrlRegistry, thumbUrlRegistry, urlCalls,
             objectUrls, revokedUrls, nextUrl, nextCall>>
deleteVars == <<del, disk, removedFiles>>
sideVars == <<fingerprintVars, extractorVars, storeVars, urlVars, deleteVars>>
vars == <<inputVars, callerVars, poolVars, clusterVars, sideVars>>

----------------------------------------------------------------------------
(* Generic helpers *)

Range(s) == {s[i] : i \in 1..Len(s)}

Min(a, b) == IF a < b THEN a ELSE b

Max(a, b) == IF a > b THEN a ELSE b

RECURSIVE SeqOfSet(_)
SeqOfSet(S) ==
    IF S = {} THEN <<>>
    ELSE LET x == CHOOSE y \in S : \A z \in S : y <= z
         IN <<x>> \o SeqOfSet(S \ {x})

----------------------------------------------------------------------------
(* Fingerprints: hammingDistance / similarity *)

\* a ^ b on two bytes
RECURSIVE XorByte(_, _)
XorByte(a, b) ==
    IF a = b THEN 0
    ELSE (((a % 2) + (b % 2)) % 2) + 2 * XorByte(a \div 2, b \div 2)

\* while (xor) { distance += xor & 1; xor >>= 1; }
RECURSIVE BitCount(_)
BitCount(x) == IF x = 0 THEN 0 ELSE (x % 2) + BitCount(x \div 2)

\* the distance as the number of differing bytes
hammingDistance_CountsBytes(a, b) ==
    Cardinality({i \in 1..Len(a) : a[i] # b[i]})

\* distance[i] is the value of `distance` after the first i bytes
hammingDistance(a, b) ==
    LET distance[i \in 0..Len(a)] ==
            IF i = 0 THEN 0
            ELSE distance[i - 1] + BitCount(XorByte(a[i], b[i]))
    IN  distance[Len(a)]

\* similarity as dist / totalBits
similarity_CountsDistance(a, b) == 100 * hammingDistance(a, b)

\* 1 - dist / HASH_BITS, times Scale
similarity(a, b) == Scale - 100 * hammingDistance(a, b)

\* the threshold (percent) on the same scale
ScaledThreshold(t) == t * HASH_BITS

----------------------------------------------------------------------------
(* createdAt and date buckets *)

NoDate == [kind |-> "none", ms |-> 0]          \* '' or missing
BadDate == [kind |-> "invalid", ms |-> 0]      \* Date parse gives NaN
DateAt(ms) == [kind |-> "date", ms |-> ms]     \* an ISO-8601 string

IsUnknownDate(c) == c.kind # "date"

\* Math.floor(time / DAY_MS)
DayIndex(c) == c.ms \div DAY_MS

DayKey(d) == <<"day", d>>
UnknownKey == <<"unknown", 0>>
AllKey == <<"all", 0>>

\* variant: each image goes into the bucket of its own day only
BucketOffsets_OwnDay == <<0>>

\* variant: each image goes into the bucket of the day before only
BucketOffsets_DayBefore == <<-1>>

\* the offsets of the inner loop of buildDateBuckets
BucketOffsets == <<-1, 0, 1>>

\* buckets.get(key).push(h), creating the bucket at the end of the Map
PushToBucket(buckets, key, h) ==
    IF \E k \in 1..Len(buckets) : buckets[k].key = key
    THEN [k \in 1..Len(buckets) |->
            IF buckets[k].key = key
            THEN [buckets[k] EXCEPT !.items = Append(@, h)]
            ELSE buckets[k]]
    ELSE Append(buckets, [key |-> key, items |-> <<h>>])

RECURSIVE PushOffsets(_, _, _, _, _)
PushOffsets(buckets, day, h, offs, o) ==
    IF o > Len(offs) THEN buckets
    ELSE PushOffsets(PushToBucket(buckets, DayKey(day + offs[o]), h),
                     day, h, offs, o + 1)

RECURSIVE DatedBuckets(_, _, _, _)
DatedBuckets(buckets, hashes, dates, i) ==
    IF i > Len(hashes) THEN buckets
    ELSE LET h == hashes[i]
         IN IF h \notin DOMAIN dates \/ IsUnknownDate(dates[h])
            THEN DatedBuckets(buckets, hashes, dates, i + 1)
            ELSE DatedBuckets(
                    PushOffsets(buckets, DayIndex(dates[h]), h, BucketOffsets, 1),
                    hashes, dates, i + 1)

UnknownBucket(hashes, dates) ==
    SelectSeq(hashes, LAMBDA h : h \notin DOMAIN dates \/ IsUnknownDate(dates[h]))

GlobalBucket(hashes) == <<[key |-> AllKey, items |-> hashes]>>

\* variant: the fallback does not look at the share of undated images
buildDateBuckets_DatedOnlyTest(hashes, dates) ==
    LET buckets == DatedBuckets(<<>>, hashes, dates, 1)
        unknownBucket == UnknownBucket(hashes, dates)
    IN  IF Len(buckets) = 0
        THEN GlobalBucket(hashes)
        ELSE IF Len(unknownBucket) > 0
             THEN Append(buckets, [key |-> UnknownKey, items |-> unknownBucket])
             ELSE buckets

buildDateBuckets(hashes, dates) ==
    LET buckets == DatedBuckets(<<>>, hashes, dates, 1)
        unknownBucket == UnknownBucket(hashes, dates)
    IN  IF Len(buckets) = 0 \/ 2 * Len(unknownBucket) > Len(hashes)
        THEN GlobalBucket(hashes)
        ELSE IF Len(unknownBucket) > 0
             THEN Append(buckets, [key |-> UnknownKey, items |-> unknownBucket])
             ELSE buckets

\* variant: each bucket is counted for the pairs of neighbours only
RECURSIVE SumPairs_Neighbours(_, _)
SumPairs_Neighbours(buckets, k) ==
    IF k > Len(buckets) THEN 0
    ELSE Max(Len(buckets[k].items) - 1, 0) + SumPairs_Neighbours(buckets, k + 1)

RECURSIVE SumPairs(_, _)
SumPairs(buckets, k) ==
    IF k > Len(buckets) THEN 0
    ELSE (Len(buckets[k].items) * (Len(buckets[k].items) - 1)) \div 2
         + SumPairs(buckets, k + 1)

estimatePairs(hashes, dates) == SumPairs(buildDateBuckets(hashes, dates), 1)

----------------------------------------------------------------------------
(* Union-Find of compareAndGroup.  parent and groupSimilarity are Maps:    *)
(* functions whose domain is the set of keys present.                      *)

MapSet(m, k, v) == [x \in (DOMAIN m) \cup {k} |-> IF x = k THEN v ELSE m[x]]

EmptyMap == [x \in {} |-> 0]

\* the value find(x) returns
RECURSIVE FindRoot(_, _)
FindRoot(parent, x) ==
    IF x \notin DOMAIN parent THEN x
    ELSE IF parent[x] = x THEN x
    ELSE FindRoot(parent, parent[x])

\* the nodes find(x) visits
RECURSIVE FindPath(_, _)
FindPath(parent, x) ==
    IF x \notin DOMAIN parent THEN {x}
    ELSE IF parent[x] = x THEN {x}
    ELSE {x} \cup FindPath(parent, parent[x])

\* the parent Map after find(x): x is entered, its path is compressed
find(parent, x) ==
    LET root == FindRoot(parent, x)
        path == FindPath(parent, x)
    IN  [y \in (DOMAIN parent) \cup {x} |->
            IF y \in path THEN root ELSE parent[y]]

\* groupSimilarity.get(root) ?? dflt
SimOr(groupSimilarity, root, dflt) ==
    IF root \in DOMAIN groupSimilarity THEN groupSimilarity[root] ELSE dflt

\* variant: parent.set(b, rootA), the member instead of its root
union_ReparentsMember(st, a, b, sim) ==
    LET p1 == find(st.parent, a)
        rootA == FindRoot(p1, a)
        p2 == find(p1, b)
        rootB == FindRoot(p2, b)
    IN  IF rootA # rootB
        THEN [st EXCEPT
                !.parent = MapSet(p2, b, rootA),
                !.groupSimilarity =
                    MapSet(@, rootA, Min(SimOr(@, rootA, Scale), sim)),
                !.unions = Append(@, [a |-> a, b |-> b, sim |-> sim])]
        ELSE [st EXCEPT !.parent = p2]

\* variant: the sets are joined and no similarity is recorded
union_ForgetsSimilarity(st, a, b, sim) ==
    LET rootA == FindRoot(st.parent, a)
        rootB == FindRoot(st.parent, b)
        found == find(find(st.parent, a), b)
    IN  IF rootA # rootB
        THEN [st EXCEPT
                !.parent = MapSet(found, rootB, rootA),
                !.unions = Append(@, [a |-> a, b |-> b, sim |-> sim])]
        ELSE [st EXCEPT !.parent = found]

\* union(a, b, sim) on the state st = [parent, groupSimilarity, ...];
\* find(a) and find(b) compress paths and leave every root as it is
union(st, a, b, sim) ==
    LET rootA == FindRoot(st.parent, a)
        rootB == FindRoot(st.parent, b)
        found == find(find(st.parent, a), b)
    IN  IF rootA # rootB
        THEN [st EXCEPT
                !.parent = MapSet(found, rootB, rootA),
                !.groupSimilarity =
                    MapSet(@, rootA, Min(SimOr(@, rootA, Scale), sim)),
                !.unions = Append(@, [a |-> a, b |-> b, sim |-> sim])]
        ELSE [st EXCEPT !.parent = found]

PairKey(a, b) == IF a < b THEN <<a, b>> ELSE <<b, a>>

\* variant: sim <= threshold
MeetsThreshold_AtMost(sim, t) == sim <= ScaledThreshold(t)

\* sim >= threshold
MeetsThreshold(sim, t) == sim >= ScaledThreshold(t)

\* variant: comparedPairs is not consulted
ComparePair_NoMemo(st, a, b, H, t) ==
    IF a = b THEN st
    ELSE LET sim == similarity(H[a], H[b])
             st1 == [st EXCEPT !.comparedPairs = @ \cup {PairKey(a, b)},
                               !.pairsChecked = @ + 1,
                               !.scored = Append(@, PairKey(a, b)),
                               !.signal = @ \/ st.pairsChecked + 1 = st.abortAt]
         IN  IF MeetsThreshold(sim, t) THEN union(st1, a, b, sim) ELSE st1

\* the body of the inner loop (lines 518-539) for a = bucket[i], b = bucket[j];
\* the progress callback may abort the signal (after pair number abortAt)
ComparePair(st, a, b, H, t) ==
    IF a = b THEN st
    ELSE IF PairKey(a, b) \in st.comparedPairs THEN st
    ELSE LET sim == similarity(H[a], H[b])
             st1 == [st EXCEPT !.comparedPairs = @ \cup {PairKey(a, b)},
                               !.pairsChecked = @ + 1,
                               !.scored = Append(@, PairKey(a, b)),
                               !.signal = @ \/ st.pairsChecked + 1 = st.abortAt]
         IN  IF MeetsThreshold(sim, t) THEN union(st1, a, b, sim) ELSE st1

\* variant: bucket[i] is compared with the last entry of the bucket only
InnerLoop_LastOnly(st, bucket, i, j, H, t) ==
    IF j > Len(bucket) THEN st
    ELSE ComparePair(st, bucket[i], bucket[Len(bucket)], H, t)

RECURSIVE InnerLoop(_, _, _, _, _, _)
InnerLoop(st, bucket, i, j, H, t) ==
    IF j > Len(bucket) THEN st
    ELSE InnerLoop(ComparePair(st, bucket[i], bucket[j], H, t),
                   bucket, i, j + 1, H, t)

\* variant: line 516 is missing
RECURSIVE OuterLoop_NoSignalTest(_, _, _, _, _)
OuterLoop_NoSignalTest(st, bucket, i, H, t) ==
    IF i > Len(bucket) THEN st
    ELSE OuterLoop_NoSignalTest(InnerLoop(st, bucket, i, i + 1, H, t),
                                bucket, i + 1, H, t)

\* for (let i ...) { if (signal?.aborted) return []; for (let j ...) ... }
RECURSIVE OuterLoop(_, _, _, _, _)
OuterLoop(st, bucket, i, H, t) ==
    IF i > Len(bucket) THEN st
    ELSE IF st.signal THEN [st EXCEPT !.stopped = TRUE]
    ELSE OuterLoop(InnerLoop(st, bucket, i, i + 1, H, t), bucket, i + 1, H, t)

\* for (const bucket of buckets.values()) { if (signal?.aborted) return []; ... }
RECURSIVE BucketLoop(_, _, _, _, _)
BucketLoop(st, buckets, k, H, t) ==
    IF k > Len(buckets) THEN st
    ELSE IF st.stopped THEN st
    ELSE IF st.signal THEN [st EXCEPT !.stopped = TRUE]
    ELSE BucketLoop(OuterLoop(st, buckets[k].items, 1, H, t),
                    buckets, k + 1, H, t)

\* the signal is never aborted / is aborted when the pass begins
NeverAborted == -1
AbortedBefore == 0

\* signal: signal.aborted; abortAt: the number of the pair whose progress
\* callback aborts the signal; stopped: the pass returned [] at a signal test
InitialForest ==
    [parent |-> EmptyMap, groupSimilarity |-> EmptyMap, comparedPairs |-> {},
     pairsChecked |-> 0, scored |-> <<>>, unions |-> <<>>,
     signal |-> FALSE, abortAt |-> NeverAborted, stopped |-> FALSE]

ForestFor(abortAt) ==
    [InitialForest EXCEPT !.abortAt = abortAt,
                          !.signal = (abortAt = AbortedBefore)]

\* variant: the id is also pushed to the first entry of the Map
AddMember_AlsoToFirst(members, root, id) ==
    IF \E k \in 1..Len(members) : members[k].root = root
    THEN [k \in 1..Len(members) |->
            IF members[k].root = root \/ k = 1
            THEN [members[k] EXCEPT !.ids = Append(@, id)]
            ELSE members[k]]
    ELSE Append(members, [root |-> root, ids |-> <<id>>])

\* groupMembers.get(root).push(id), creating the entry at the end of the Map
AddMember(members, root, id) ==
    IF \E k \in 1..Len(members) : members[k].root = root
    THEN [k \in 1..Len(members) |->
            IF members[k].root = root
            THEN [members[k] EXCEPT !.ids = Append(@, id)]
            ELSE members[k]]
    ELSE Append(members, [root |-> root, ids |-> <<id>>])

\* groupMembers: one entry per root, in order of first appearance; find does
\* not change the root of any id
RECURSIVE CollectMembers(_, _, _, _)
CollectMembers(members, parent, hashes, i) ==
    IF i > Len(hashes) THEN members
    ELSE CollectMembers(
            AddMember(members, FindRoot(parent, hashes[i]), hashes[i]),
            parent, hashes, i + 1)

\* [...new Set(memberIds)]
RECURSIVE UniqueIds(_)
UniqueIds(ids) ==
    IF ids = <<>> THEN <<>>
    ELSE LET front == UniqueIds(SubSeq(ids, 1, Len(ids) - 1))
             last == ids[Len(ids)]
         IN  IF last \in Range(front) THEN front ELSE Append(front, last)

\* variant: the two length tests are missing
RECURSIVE MakeGroups_KeepSingletons(_, _, _, _, _)
MakeGroups_KeepSingletons(members, k, photoIds, groupSimilarity, t) ==
    IF k > Len(members) THEN <<>>
    ELSE LET rest == MakeGroups_KeepSingletons(members, k + 1, photoIds,
                                               groupSimilarity, t)
             uniqueIds == UniqueIds(members[k].ids)
             groupPhotos == SelectSeq(uniqueIds, LAMBDA id : id \in photoIds)
         IN  <<[photos |-> groupPhotos,
                similarity |-> SimOr(groupSimilarity, members[k].root,
                                     ScaledThreshold(t))]>> \o rest

\* lines 552-568: one group per root with at least 2 known photos
RECURSIVE MakeGroups(_, _, _, _, _)
MakeGroups(members, k, photoIds, groupSimilarity, t) ==
    IF k > Len(members) THEN <<>>
    ELSE LET rest == MakeGroups(members, k + 1, photoIds, groupSimilarity, t)
             uniqueIds == UniqueIds(members[k].ids)
             groupPhotos == SelectSeq(uniqueIds, LAMBDA id : id \in photoIds)
         IN  IF Len(members[k].ids) < 2 THEN rest
             ELSE IF Len(groupPhotos) < 2 THEN rest
             ELSE <<[photos |-> groupPhotos,
                     similarity |-> SimOr(groupSimilarity, members[k].root,
                                          ScaledThreshold(t))]>> \o rest

\* variant: the groups are left in the order of the Map
SortGroups_MapOrder(groups) == groups

\* groups.sort((a, b) => b.photos.length - a.photos.length), a stable sort
RECURSIVE InsertGroup(_, _)
InsertGroup(sorted, g) ==
    IF sorted = <<>> THEN <<g>>
    ELSE IF Len(Head(sorted).photos) >= Len(g.photos)
         THEN <<Head(sorted)>> \o InsertGroup(Tail(sorted), g)
         ELSE <<g>> \o sorted

RECURSIVE SortGroups(_)
SortGroups(groups) ==
    IF groups = <<>> THEN <<>>
    ELSE InsertGroup(SortGroups(SubSeq(groups, 1, Len(groups) - 1)),
                     groups[Len(groups)])

\* compareAndGroup over a given bucket structure, for a signal that is
\* aborted as abortAt tells
CompareBuckets(buckets, hashes, photoIds, H, t, abortAt) ==
    LET forest == BucketLoop(ForestFor(abortAt), buckets, 1, H, t)
        members == CollectMembers(<<>>, forest.parent, hashes, 1)
        groups == SortGroups(
                    MakeGroups(members, 1, photoIds, forest.groupSimilarity, t))
    IN  [groups |-> IF forest.stopped THEN <<>> ELSE groups,
         forest |-> forest,
         buckets |-> buckets,
         hashes |-> hashes]

compareAndGroup(hashes, photoIds, H, dates, t, abortAt) ==
    CompareBuckets(buildDateBuckets(hashes, dates), hashes, photoIds, H, t,
                   abortAt)

\* a signal that does not change during the pass
SignalOf(sig) == IF sig THEN AbortedBefore ELSE NeverAborted

----------------------------------------------------------------------------
(* Input domains *)

\* a fingerprint whose bytes from..to are 0xFF and whose other bytes are 0
Fill(from, to) == [i \in 1..HashBytes |-> IF from <= i /\ i <= to THEN 255 ELSE 0]

\* pairwise distances 16, 24 and 40 bits: at 85 percent (at most 38 bits)
\* the first is similar to the two others, which are not similar to each other
HashValues == {Fill(1, 0), Fill(1, 2), Fill(3, 5)}

\* day indices 0, 2 and 4, a missing date and an unparseable one
CreatedAtValues ==
    {NoDate, BadDate, DateAt(DAY_MS - 1), DateAt(2 * DAY_MS), DateAt(4 * DAY_MS)}

Thresholds == {DEFAULT_THRESHOLD, 95}

Ids(n) == 1..n

IdSeq(n) == [i \in 1..n |-> i]

NoOutput ==
    [groups |-> <<>>, forest |-> InitialForest, buckets |-> <<>>,
     hashes |-> <<>>]

NoResult == [groups |-> <<>>, qualityMap |-> {}]

IdleProgress == [current |-> 0, total |-> 0, status |-> "idle"]

\* the store and the pool before any analysis was started
Idle ==
    /\ callerPc = "idle" /\ scansLeft = 0 /\ abortRef = FALSE /\ aborted = FALSE
    /\ isAnalyzing = FALSE /\ analysisProgress = IdleProgress
    /\ progressLog = <<>>
    /\ apPc = "idle" /\ apResult = NoResult /\ listener = FALSE
    /\ queue = <<>> /\ workers = 0 /\ terminated = {} /\ reading = {}
    /\ pulled = <<>> /\ posted = {}
    /\ inbox = {} /\ lost = {} /\ failed = {} /\ results = <<>>
    /\ completed = 0 /\ hpResolved = FALSE /\ hpValue = <<>>

NoDistance == [distance |-> 0, similarity |-> 0]

\* hammingDistance and similarity are not being exercised on their own
FingerprintIdle ==
    fpPc = "off" /\ fpA = <<>> /\ fpB = <<>> /\ fpOut = NoDistance

NoImage == [decodable |-> FALSE, w |-> 0, h |-> 0, gray |-> <<>>]

NoMessage == [type |-> "none"]

\* the worker has not been handed an image
ExtractorIdle == exPc = "off" /\ image = NoImage /\ exOut = NoMessage

NoOp == [op |-> "none", photo |-> 0, item |-> 0, via |-> "none"]

\* the store as created: no photos, no groups, an empty trash
StoreIdle ==
    /\ storePhotos = <<>> /\ similarityGroups = <<>> /\ trashItems = <<>>
    /\ nextPhotoId = 1 /\ nextItemId = 1 /\ scans = 0 /\ lastOp = NoOp

\* no directory was scanned: the registries are empty
UrlsIdle ==
    /\ fileRegistry = {} /\ blobUrlRegistry = EmptyMap
    /\ thumbUrlRegistry = EmptyMap /\ urlCalls = {} /\ objectUrls = {}
    /\ revokedUrls = {} /\ nextUrl = 1 /\ nextCall = 1

NoDelete ==
    [pc |-> "off", photoIds |-> <<>>, pos |-> 1, deleted_count |-> 0,
     freed_bytes |-> 0, errors |-> <<>>]

\* deleteFiles was not called and no file was found
DeleteIdle == del = NoDelete /\ disk = {} /\ removedFiles = {}

SideIdle ==
    FingerprintIdle /\ ExtractorIdle /\ StoreIdle /\ UrlsIdle /\ DeleteIdle

----------------------------------------------------------------------------
(* compareAndGroup as a function of its inputs *)

ClusterInit ==
    /\ \E n \in 0..MaxImages :
          /\ photos = IdSeq(n)
          /\ hashOf \in [Ids(n) -> HashValues]
          /\ createdAt \in [Ids(n) -> CreatedAtValues]
    /\ threshold \in Thresholds
    /\ hardwareConcurrency = 0
    /\ Idle
    /\ SideIdle
    /\ cPc = "input"
    /\ cOut = NoOutput

\* compareAndGroup(hashes, photos, threshold, onProgress, signal) with every
\* photo hashed
Compare ==
    /\ cPc = "input"
    /\ cPc' = "done"
    /\ cOut' = compareAndGroup(photos, Range(photos), hashOf, createdAt,
                               threshold, NeverAborted)
    /\ UNCHANGED <<inputVars, sideVars, callerVars, poolVars>>

ClusterNext == Compare

SpecCluster == ClusterInit /\ [][ClusterNext]_vars

----------------------------------------------------------------------------
(* compareAndGroup called with a list that may hold an id twice and with a  *)
(* progress callback that may abort the signal                              *)

PassHashValues == {Fill(1, 0), Fill(1, 2)}

PassCreatedAtValues == {NoDate, DateAt(DAY_MS - 1), DateAt(2 * DAY_MS)}

PassInit ==
    /\ \E n \in 0..MaxImages :
          /\ photos = IdSeq(n)
          /\ hashOf \in [Ids(n) -> PassHashValues]
          /\ createdAt \in [Ids(n) -> PassCreatedAtValues]
    /\ threshold = DEFAULT_THRESHOLD
    /\ hardwareConcurrency = 0
    /\ Idle
    /\ SideIdle
    /\ cPc = "input"
    /\ cOut = NoOutput

\* the lists handed over: the photos, or the photos with one entry repeated
PassInputs == {photos} \cup {Append(photos, photos[k]) : k \in 1..Len(photos)}

\* the pair after which the callback aborts: none, before the pass, or one
\* of the pairs of the list
PassAborts(hashes) ==
    {NeverAborted} \cup (AbortedBefore..((Len(hashes) * (Len(hashes) - 1)) \div 2))

ComparePass ==
    /\ cPc = "input"
    /\ cPc' = "done"
    /\ \E hashes \in PassInputs : \E abortAt \in PassAborts(hashes) :
            cOut' = compareAndGroup(hashes, Range(photos), hashOf, createdAt,
                                    threshold, abortAt)
    /\ UNCHANGED <<inputVars, sideVars, callerVars, poolVars>>

PassNext == ComparePass

SpecPass == PassInit /\ [][PassNext]_vars

----------------------------------------------------------------------------
(* The analysis run: handleStartAnalysis -> analyzePhotos -> hashPhotos.    *)
(* One action is one task of the event loop.  A promise continuation runs  *)
(* as a microtask before any other task: while one is pending no task      *)
(* action is enabled.                                                      *)

\* the library the scan finds: alternating fingerprints, one photo per day
LibraryHash(i) == IF i % 2 = 1 THEN Fill(1, 0) ELSE Fill(1, 2)

\* new Date(file.lastModified).toISOString()
LibraryDate(i) == DateAt((i - 1) * DAY_MS)

ConcurrencyValues == {0, 1, 2}

Init ==
    /\ \E n \in 0..MaxPhotos :
          /\ photos = IdSeq(n)
          /\ hashOf = [i \in Ids(n) |-> LibraryHash(i)]
          /\ createdAt = [i \in Ids(n) |-> LibraryDate(i)]
    /\ threshold = DEFAULT_THRESHOLD
    /\ hardwareConcurrency \in ConcurrencyValues
    /\ Idle
    /\ SideIdle
    /\ cPc = "off"
    /\ cOut = NoOutput

N == Len(photos)

MicrotaskPending == apPc = "resume" \/ callerPc = "resume"

\* Math.min(navigator.hardwareConcurrency || 4, photos.length, 8)
WorkerCount(hc, n) ==
    Min(Min(IF hc = 0 THEN DEFAULT_CONCURRENCY ELSE hc, n), MAX_WORKERS)

Progress(c, t, s) == [current |-> c, total |-> t, status |-> s]

\* variant: only 'idle' ends the analysis
AnalyzingFor_NotIdle(p) == p.status # "idle"

\* store.setAnalysisProgress: the value isAnalyzing gets
AnalyzingFor(p) == p.status # "idle" /\ p.status # "complete"

\* the store after the progress values ps were passed to setAnalysisProgress
SetAnalysisProgress(ps) ==
    IF ps = <<>>
    THEN UNCHANGED <<isAnalyzing, analysisProgress>>
    ELSE /\ analysisProgress' = ps[Len(ps)]
         /\ isAnalyzing' = AnalyzingFor(ps[Len(ps)])

\* store.stopAnalysis
StopAnalysis ==
    /\ isAnalyzing' = FALSE
    /\ analysisProgress' = IdleProgress

\* variant: the worker takes two items when the queue holds them
processNext_PullsTwo(w, q, r, pl) ==
    IF aborted THEN [queue |-> q, reading |-> r, pulled |-> pl]
    ELSE IF q = <<>> THEN [queue |-> q, reading |-> r, pulled |-> pl]
    ELSE IF Len(q) = 1
         THEN [queue |-> Tail(q), reading |-> r \cup {<<w, Head(q)>>},
               pulled |-> Append(pl, <<w, Head(q)>>)]
         ELSE [queue |-> Tail(Tail(q)),
               reading |-> r \cup {<<w, q[1]>>, <<w, q[2]>>},
               pulled |-> pl \o << <<w, q[1]>>, <<w, q[2]>> >>]

\* the synchronous part of processNext(worker) on queue q, pending reads r
\* and the items pl shifted so far
processNext(w, q, r, pl) ==
    IF aborted THEN [queue |-> q, reading |-> r, pulled |-> pl]
    ELSE IF q = <<>> THEN [queue |-> q, reading |-> r, pulled |-> pl]
    ELSE [queue |-> Tail(q), reading |-> r \cup {<<w, Head(q)>>},
          pulled |-> Append(pl, <<w, Head(q)>>)]

\* variant: every worker reads the head of the queue as it was at the start
RECURSIVE StartWorkers_SharedHead(_, _, _, _, _)
StartWorkers_SharedHead(w, n, q, r, pl) ==
    IF w > n THEN [queue |-> q, reading |-> r, pulled |-> pl]
    ELSE LET pn == processNext(w, q, r, pl)
         IN  IF w = n
             THEN pn
             ELSE StartWorkers_SharedHead(w + 1, n, q, pn.reading, pn.pulled)

\* processNext(worker) for the workers w..n in turn (the loop of hashPhotos)
RECURSIVE StartWorkers(_, _, _, _, _)
StartWorkers(w, n, q, r, pl) ==
    IF w > n THEN [queue |-> q, reading |-> r, pulled |-> pl]
    ELSE LET pn == processNext(w, q, r, pl)
         IN  StartWorkers(w + 1, n, pn.queue, pn.reading, pn.pulled)

\* reportProgress: the values passed to onProgress when c items are completed;
\* elapsed stands for now - lastProgressTime > 66
reportProgress(c, elapsed) ==
    IF elapsed \/ c = N THEN <<Progress(c, N, "hashing")>> ELSE <<>>

IdsOf(S) == {p[2] : p \in S}

\* variant: cleanup() leaves the workers running
Cleanup_LeavesWorkers ==
    UNCHANGED <<terminated, inbox>>

\* cleanup(): every worker is terminated, what it held is gone
Cleanup ==
    /\ terminated' = 1..workers
    /\ inbox' = {}

\* if (completed === photos.length) { cleanup(); resolve(results); }
\* for the pool whose inbox is inb and whose results are res
Settle(c, inb, res) ==
    IF c = N
    THEN /\ terminated' = 1..workers
         /\ inbox' = {}
         /\ lost' = lost \cup IdsOf(inb)
         /\ IF hpResolved
            THEN UNCHANGED <<hpResolved, hpValue, apPc>>
            ELSE /\ hpResolved' = TRUE
                 /\ hpValue' = res
                 /\ apPc' = "resume"
    ELSE /\ inbox' = inb
         /\ UNCHANGED <<terminated, lost, hpResolved, hpValue, apPc>>

\* handleStartAnalysis up to its first await
StartAnalysis ==
    /\ callerPc = "idle"
    /\ ~MicrotaskPending
    /\ \E k \in 1..MaxFolders : scansLeft' = k
    /\ callerPc' = "scanning"
    /\ abortRef' = TRUE
    /\ aborted' = FALSE
    /\ isAnalyzing' = TRUE
    /\ analysisProgress' = Progress(0, 0, "scanning")
    /\ UNCHANGED <<inputVars, sideVars, progressLog, poolVars, clusterVars>>

\* the onProgress callback handed to scanDirectory
ScanProgress ==
    /\ callerPc = "scanning"
    /\ ~MicrotaskPending
    /\ \E c \in 1..N : analysisProgress' = Progress(c, 0, "scanning")
    /\ isAnalyzing' = TRUE
    /\ UNCHANGED <<inputVars, sideVars, callerPc, scansLeft, abortRef, aborted,
                   progressLog, poolVars, clusterVars>>

\* finally { abortRef.current = null; stopAnalysis(); }
Finally ==
    /\ callerPc' = "done"
    /\ abortRef' = FALSE
    /\ StopAnalysis

\* analyzePhotos up to await hashPhotos, hashPhotos up to the end of its
\* executor: the workers are created and each is given its first item
EnterAnalyze ==
    LET wc == WorkerCount(hardwareConcurrency, N)
        started == StartWorkers(1, wc, photos, {}, <<>>)
        first == <<Progress(0, N, "hashing")>>
    IN  /\ callerPc' = "analyzing"
        /\ apPc' = "hashing"
        /\ progressLog' = progressLog \o first
        /\ SetAnalysisProgress(first)
        /\ listener' = TRUE
        /\ workers' = wc
        /\ queue' = started.queue
        /\ reading' = started.reading
        /\ pulled' = started.pulled
        /\ results' = <<>>
        /\ completed' = 0
        /\ UNCHANGED <<abortRef, apResult, terminated, posted, inbox, lost,
                       failed, hpResolved, hpValue>>

\* a scanDirectory promise resolves: next folder, or the analysis starts
ScanDone ==
    /\ callerPc = "scanning"
    /\ ~MicrotaskPending
    /\ IF scansLeft > 1
       THEN IF aborted
            THEN /\ Finally
                 /\ UNCHANGED <<scansLeft, progressLog, poolVars>>
            ELSE /\ scansLeft' = scansLeft - 1
                 /\ UNCHANGED <<callerPc, abortRef, isAnalyzing,
                                analysisProgress, progressLog, poolVars>>
       ELSE IF N = 0
            THEN /\ Finally
                 /\ scansLeft' = 0
                 /\ UNCHANGED <<progressLog, poolVars>>
            ELSE /\ EnterAnalyze
                 /\ scansLeft' = 0
    /\ UNCHANGED <<inputVars, sideVars, aborted, clusterVars>>

\* variant: resolve(results), the results collected so far
AbortListener_KeepsResults ==
    /\ Cleanup
    /\ lost' = lost \cup IdsOf(inbox)
    /\ IF hpResolved
       THEN UNCHANGED <<hpResolved, hpValue, apPc>>
       ELSE /\ hpResolved' = TRUE
            /\ hpValue' = results
            /\ apPc' = "resume"

\* the abort listener of hashPhotos: cleanup(); resolve([])
AbortListener ==
    /\ Cleanup
    /\ lost' = lost \cup IdsOf(inbox)
    /\ IF hpResolved
       THEN UNCHANGED <<hpResolved, hpValue, apPc>>
       ELSE /\ hpResolved' = TRUE
            /\ hpValue' = <<>>
            /\ apPc' = "resume"

\* handleCancelAnalysis: abortRef.current?.abort(); stopAnalysis()
Cancel ==
    /\ isAnalyzing
    /\ ~MicrotaskPending
    /\ IF abortRef /\ ~aborted
       THEN /\ aborted' = TRUE
            /\ IF listener
               THEN AbortListener
               ELSE UNCHANGED <<terminated, inbox, lost, hpResolved, hpValue, apPc>>
       ELSE UNCHANGED <<aborted, terminated, inbox, lost, hpResolved, hpValue, apPc>>
    /\ StopAnalysis
    /\ UNCHANGED <<inputVars, sideVars, callerPc, scansLeft, abortRef, progressLog,
                   apResult, listener, queue, workers, reading, pulled,
                   posted, failed, results, completed, clusterVars>>

\* getFileArrayBuffer resolves: worker.postMessage(...); a terminated worker
\* never receives it
ReadOk(w, id) ==
    /\ <<w, id>> \in reading
    /\ ~MicrotaskPending
    /\ reading' = reading \ {<<w, id>>}
    /\ posted' = posted \cup {<<w, id, aborted, w \in terminated>>}
    /\ IF w \in terminated
       THEN lost' = lost \cup {id} /\ UNCHANGED inbox
       ELSE inbox' = inbox \cup {<<w, id>>} /\ UNCHANGED lost
    /\ UNCHANGED <<inputVars, sideVars, callerVars, apPc, apResult, listener, queue,
                   workers, terminated, pulled, failed, results, completed,
                   hpResolved, hpValue, clusterVars>>

\* variant: the catch block does not count the item
ReadFail_NotCounted(w, id) ==
    /\ <<w, id>> \in reading
    /\ ~MicrotaskPending
    /\ \E elapsed \in BOOLEAN :
        LET c == completed
            ps == reportProgress(c, elapsed)
            pn == processNext(w, queue, reading \ {<<w, id>>}, pulled)
        IN  /\ failed' = failed \cup {id}
            /\ completed' = c
            /\ progressLog' = progressLog \o ps
            /\ SetAnalysisProgress(ps)
            /\ queue' = pn.queue
            /\ reading' = pn.reading
            /\ pulled' = pn.pulled
            /\ Settle(c, inbox, results)
    /\ UNCHANGED <<inputVars, sideVars, callerPc, scansLeft, abortRef, aborted,
                   apResult, listener, workers, posted, results, clusterVars>>

\* variant: the catch block does not call processNext(worker)
ReadFail_NoPull(w, id) ==
    /\ <<w, id>> \in reading
    /\ ~MicrotaskPending
    /\ \E elapsed \in BOOLEAN :
        LET c == completed + 1
            ps == reportProgress(c, elapsed)
        IN  /\ failed' = failed \cup {id}
            /\ completed' = c
            /\ progressLog' = progressLog \o ps
            /\ SetAnalysisProgress(ps)
            /\ queue' = queue
            /\ reading' = reading \ {<<w, id>>}
            /\ pulled' = pulled
            /\ Settle(c, inbox, results)
    /\ UNCHANGED <<inputVars, sideVars, callerPc, scansLeft, abortRef, aborted,
                   apResult, listener, workers, posted, results, clusterVars>>

\* getFileArrayBuffer rejects: the catch block of processNext
ReadFail(w, id) ==
    /\ <<w, id>> \in reading
    /\ ~MicrotaskPending
    /\ \E elapsed \in BOOLEAN :
        LET c == completed + 1
            ps == reportProgress(c, elapsed)
            pn == processNext(w, queue, reading \ {<<w, id>>}, pulled)
        IN  /\ failed' = failed \cup {id}
            /\ completed' = c
            /\ progressLog' = progressLog \o ps
            /\ SetAnalysisProgress(ps)
            /\ queue' = pn.queue
            /\ reading' = pn.reading
            /\ pulled' = pn.pulled
            /\ Settle(c, inbox, results)
    /\ UNCHANGED <<inputVars, sideVars, callerPc, scansLeft, abortRef, aborted,
                   apResult, listener, workers, posted, results, clusterVars>>

\* variant: results.push(...) whatever data.type is
OnMessage_AlwaysPushes(w, id, kind) ==
    /\ <<w, id>> \in inbox
    /\ ~MicrotaskPending
    /\ \E elapsed \in BOOLEAN :
        LET res == Append(results, id)
            c == completed + 1
            ps == reportProgress(c, elapsed)
            pn == processNext(w, queue, reading, pulled)
        IN  /\ results' = res
            /\ failed' = IF kind = "error" THEN failed \cup {id} ELSE failed
            /\ completed' = c
            /\ progressLog' = progressLog \o ps
            /\ SetAnalysisProgress(ps)
            /\ queue' = pn.queue
            /\ reading' = pn.reading
            /\ pulled' = pn.pulled
            /\ Settle(c, inbox \ {<<w, id>>}, res)
    /\ UNCHANGED <<inputVars, sideVars, callerPc, scansLeft, abortRef, aborted,
                   apResult, listener, workers, posted, clusterVars>>

\* worker.onmessage for the answer to item id: kind is data.type
OnMessage(w, id, kind) ==
    /\ <<w, id>> \in inbox
    /\ ~MicrotaskPending
    /\ \E elapsed \in BOOLEAN :
        LET res == IF kind = "result" THEN Append(results, id) ELSE results
            c == completed + 1
            ps == reportProgress(c, elapsed)
            pn == processNext(w, queue, reading, pulled)
        IN  /\ results' = res
            /\ failed' = IF kind = "error" THEN failed \cup {id} ELSE failed
            /\ completed' = c
            /\ progressLog' = progressLog \o ps
            /\ SetAnalysisProgress(ps)
            /\ queue' = pn.queue
            /\ reading' = pn.reading
            /\ pulled' = pn.pulled
            /\ Settle(c, inbox \ {<<w, id>>}, res)
    /\ UNCHANGED <<inputVars, sideVars, callerPc, scansLeft, abortRef, aborted,
                   apResult, listener, workers, posted, clusterVars>>

\* worker.onerror while the worker holds item id
OnError(w, id) ==
    /\ <<w, id>> \in inbox
    /\ ~MicrotaskPending
    /\ LET c == completed + 1
           pn == processNext(w, queue, reading, pulled)
       IN  /\ failed' = failed \cup {id}
           /\ completed' = c
           /\ queue' = pn.queue
           /\ reading' = pn.reading
           /\ pulled' = pn.pulled
           /\ Settle(c, inbox \ {<<w, id>>}, results)
    /\ UNCHANGED <<inputVars, sideVars, callerVars, apResult, listener, workers,
                   posted, results, clusterVars>>

\* variant: the pairs still to check are reported
RECURSIVE ComparingProgress_CountsDown(_, _, _, _)
ComparingProgress_CountsDown(k, checked, totalPairs, emit) ==
    IF k > checked THEN <<>>
    ELSE (IF k \in emit
          THEN <<Progress(checked - k, totalPairs, "comparing")>>
          ELSE <<>>)
         \o ComparingProgress_CountsDown(k + 1, checked, totalPairs, emit)

\* the progress values compareAndGroup emits: pair number k of the pass is
\* reported when the throttle lets it through (k \in emit)
RECURSIVE ComparingProgress(_, _, _, _)
ComparingProgress(k, checked, totalPairs, emit) ==
    IF k > checked THEN <<>>
    ELSE (IF k \in emit
          THEN <<Progress(Min(k, totalPairs), totalPairs, "comparing")>>
          ELSE <<>>)
         \o ComparingProgress(k + 1, checked, totalPairs, emit)

\* the value analyzePhotos returns for the hashes it awaited (lines 287-308)
AnalyzeReturn(hashes, groups, sig) ==
    IF sig THEN NoResult
    ELSE [groups |-> groups, qualityMap |-> Range(hashes)]

\* analyzePhotos after await hashPhotos
AnalyzeResume ==
    /\ apPc = "resume"
    /\ LET out == compareAndGroup(hpValue, Range(photos), hashOf, createdAt,
                                  threshold, SignalOf(aborted))
           totalPairs == estimatePairs(hpValue, createdAt)
       IN  /\ apResult' = AnalyzeReturn(hpValue, out.groups, aborted)
           /\ IF aborted
              THEN UNCHANGED <<progressLog, isAnalyzing, analysisProgress>>
              ELSE \E emit \in SUBSET (1..out.forest.pairsChecked) :
                    LET ps == <<Progress(0, totalPairs, "comparing")>>
                              \o ComparingProgress(1, out.forest.pairsChecked,
                                                   totalPairs, emit)
                              \o <<Progress(totalPairs, totalPairs, "complete")>>
                    IN  /\ progressLog' = progressLog \o ps
                        /\ SetAnalysisProgress(ps)
    /\ apPc' = "returned"
    /\ callerPc' = "resume"
    /\ UNCHANGED <<inputVars, sideVars, scansLeft, abortRef, aborted, listener, queue,
                   workers, terminated, reading, pulled, posted, inbox, lost,
                   failed, results, completed, hpResolved, hpValue,
                   clusterVars>>

\* handleStartAnalysis after await analyzePhotos, and its finally block
CallerResume ==
    /\ callerPc = "resume"
    /\ apPc = "returned"
    /\ Finally
    /\ UNCHANGED <<inputVars, sideVars, scansLeft, aborted, progressLog, poolVars,
                   clusterVars>>

Next ==
    \/ StartAnalysis
    \/ ScanProgress
    \/ ScanDone
    \/ Cancel
    \/ \E p \in reading : ReadOk(p[1], p[2])
    \/ \E p \in reading : ReadFail(p[1], p[2])
    \/ \E p \in inbox : \E kind \in {"result", "error"} : OnMessage(p[1], p[2], kind)
    \/ \E p \in inbox : OnError(p[1], p[2])
    \/ AnalyzeResume
    \/ CallerResume

Spec == Init /\ [][Next]_vars

\* Every pending read settles, every worker answers what it was sent, every
\* scan ends and the continuations of a cancelled run are executed.  Nothing
\* forces the user to cancel, and nothing below depends on the continuation
\* of an uncancelled run being executed.
ReadSettles == \E p \in reading : ReadOk(p[1], p[2]) \/ ReadFail(p[1], p[2])

WorkerAnswers ==
    \E p \in inbox :
        \/ \E kind \in {"result", "error"} : OnMessage(p[1], p[2], kind)
        \/ OnError(p[1], p[2])

FairSpec ==
    /\ Spec
    /\ WF_vars(ScanDone)
    /\ WF_vars(ReadSettles)
    /\ WF_vars(WorkerAnswers)
    /\ WF_vars(aborted /\ AnalyzeResume)
    /\ WF_vars(CallerResume)

----------------------------------------------------------------------------
(* Reference notions the clustering claims are stated with *)

GroupSets(groups) == {Range(groups[k].photos) : k \in 1..Len(groups)}

\* the pair is similar at the threshold: 1 - dist/HASH_BITS >= t/100
SimilarIds(a, b, H, t) ==
    100 * (HASH_BITS - hammingDistance(H[a], H[b])) >= t * HASH_BITS

\* the pairs <<a, b>>, a < b, of a sequence of ids in increasing order
PairSeq(ids) ==
    LET n == Len(ids)
        all == [k \in 1..(n * n) |-> <<ids[((k - 1) \div n) + 1], ids[((k - 1) % n) + 1]>>]
    IN  SelectSeq(all, LAMBDA q : q[1] < q[2])

\* the edges of the similarity graph over the ids V
SimilarEdges(V, H, t) ==
    Range(SelectSeq(PairSeq(SeqOfSet(V)),
                    LAMBDA q : SimilarIds(q[1], q[2], H, t)))

\* g cannot be split into two parts without an edge between them
Connected(g, E) ==
    \A A \in (SUBSET g) \ {{}, g} :
        \E a \in A, b \in g \ A : PairKey(a, b) \in E

\* G is the set of connected components with at least two nodes of (V, E)
IsComponents(G, V, E) ==
    /\ \A g \in G : Cardinality(g) >= 2 /\ g \subseteq V /\ Connected(g, E)
    /\ \A e \in E : \E g \in G : e[1] \in g /\ e[2] \in g
    /\ \A g \in G, h \in G : g # h => g \cap h = {}

KnownDay(dates, a) == dates[a].kind = "date"

\* more than half of the images are undated, or none is dated
SingleBucketCase(V, dates) ==
    \/ \A a \in V : ~KnownDay(dates, a)
    \/ 2 * Cardinality({a \in V : ~KnownDay(dates, a)}) > Cardinality(V)

DaysApart(dates, a, b) ==
    LET da == dates[a].ms \div DAY_MS
        db == dates[b].ms \div DAY_MS
    IN  IF da >= db THEN da - db ELSE db - da

\* the two images are put into a common bucket
ShareBucket(V, dates, a, b) ==
    \/ SingleBucketCase(V, dates)
    \/ ~KnownDay(dates, a) /\ ~KnownDay(dates, b)
    \/ KnownDay(dates, a) /\ KnownDay(dates, b) /\ DaysApart(dates, a, b) <= 2

BucketedEdges(V, H, dates, t) ==
    Range(SelectSeq(PairSeq(SeqOfSet(V)),
                    LAMBDA q : /\ ShareBucket(V, dates, q[1], q[2])
                               /\ SimilarIds(q[1], q[2], H, t)))

GlobalRun ==
    CompareBuckets(GlobalBucket(photos), photos, Range(photos), hashOf,
                   threshold, NeverAborted)

ClusterDone == cPc = "done"

----------------------------------------------------------------------------
(* C4 *)

AllSimilarShareBucket ==
    \A a \in Range(photos), b \in Range(photos) :
        \/ ShareBucket(Range(photos), createdAt, a, b)
        \/ ~SimilarIds(a, b, hashOf, threshold)

----------------------------------------------------------------------------
(* C5 *)

----------------------------------------------------------------------------
(* C6 *)

\* similarities of the unions that joined members of the group
UnionSims(forest, g) ==
    {forest.unions[k].sim : k \in {i \in 1..Len(forest.unions) :
                                        forest.unions[i].a \in g}}

SetMin(S) == CHOOSE x \in S : \A y \in S : x <= y

\* C6: the similarity reported for a group is the minimum of the similarities
\* of all the unions that built it, those of merged sub-groups included.
C6_ReportsWeakestLink ==
    ClusterDone =>
        \A k \in 1..Len(cOut.groups) :
            LET g == cOut.groups[k]
            IN  g.similarity = SetMin(UnionSims(cOut.forest, Range(g.photos)))

----------------------------------------------------------------------------
(* C7 *)

\* C7: every emitted group has at least 2 members and no id twice.
C7_GroupMinimality ==
    ClusterDone =>
        \A k \in 1..Len(cOut.groups) :
            /\ Len(cOut.groups[k].photos) >= 2
            /\ Cardinality(Range(cOut.groups[k].photos)) = Len(cOut.groups[k].photos)

\* a group is emitted while another image stays alone in its set
C7_Witness ==
    /\ ClusterDone
    /\ Len(cOut.groups) >= 1
    /\ \E a \in Range(photos) : \A g \in GroupSets(cOut.groups) : a \notin g

----------------------------------------------------------------------------
(* Reference notions the pool claims are stated with *)

\* items that are neither queued, nor being read, nor held by a worker
FinishedIds ==
    Range(photos) \ (Range(queue) \cup IdsOf(reading) \cup IdsOf(inbox) \cup lost)

HashStarted == apPc # "idle"

Returned == apPc = "returned"

----------------------------------------------------------------------------
(* C1 *)

\* C1: when the signal was raised before analyzePhotos returns, analyzePhotos
\* returns no groups and an empty quality map, and the list hashPhotos hands
\* over after a cancellation is empty, never the K results collected so far.
C1_CancelledRunIsEmpty ==
    /\ (Returned /\ aborted) => apResult = NoResult
    /\ (aborted /\ hpResolved /\ apPc = "resume") => hpValue = <<>>

\* cancelled after at least one result was collected, and returned
C1_Witness ==
    /\ Returned
    /\ aborted
    /\ Len(results) >= 1
    /\ completed < N
    /\ apResult = NoResult

----------------------------------------------------------------------------
(* C2 *)

\* C2: whenever the signal is raised, also when it is already raised on entry,
\* hashPhotos is eventually resolved with an empty list and analyzePhotos
\* eventually returns.
C2_CancelledRunReturns ==
    (aborted /\ (apPc = "hashing" \/ apPc = "resume"))
        ~> (hpResolved /\ hpValue = <<>> /\ Returned)

----------------------------------------------------------------------------
(* C3 *)

\* C3: every worker hashPhotos created is eventually terminated.
C3_WorkersReleased == (workers > 0) ~> (terminated = 1..workers)

----------------------------------------------------------------------------
(* C8 *)

----------------------------------------------------------------------------
(* C9 *)

\* C9: when cancellation is never raised hashPhotos eventually resolves,
\* whatever items fail to be read or decoded.
C9_UncancelledRunResolves == (apPc = "hashing") ~> (hpResolved \/ aborted)

\* resolved without cancellation although every item failed
C9_Witness ==
    /\ hpResolved
    /\ ~aborted
    /\ N >= 2
    /\ failed = Range(photos)

----------------------------------------------------------------------------
(* C10 *)

\* C10: in an uncancelled run the quality map has an entry exactly for the
\* images whose extraction succeeded, and no group holds a failed image.
C10_FailedItemsAbsent ==
    (Returned /\ ~aborted) =>
        /\ apResult.qualityMap = Range(photos) \ failed
        /\ \A g \in GroupSets(apResult.groups) : g \cap failed = {}

\* an uncancelled run with a failed item returns a group
C10_Witness ==
    /\ Returned
    /\ ~aborted
    /\ failed # {}
    /\ Len(apResult.groups) >= 1

----------------------------------------------------------------------------
(* Dispatch, progress and the queue *)

C12_NoHashingProgressAfterCancel ==
    aborted => analysisProgress.status # "hashing"

\* C13 (as claimed): when an uncancelled hashing run has resolved, the
\* progress N of N was passed to the callback, whatever the last completion
\* was.
C13_FinalUpdateEmitted ==
    (hpResolved /\ ~aborted) =>
        Progress(N, N, "hashing") \in Range(progressLog)

\* C14: within one phase the current values passed to the progress callback
\* never decrease.
C14_ProgressMonotone ==
    \A i \in 1..Len(progressLog), j \in 1..Len(progressLog) :
        (i < j /\ progressLog[i].status = progressLog[j].status)
            => progressLog[i].current <= progressLog[j].current

\* both phases reported progress more than once, with growing values
C14_Witness ==
    /\ \E i \in 1..Len(progressLog), j \in 1..Len(progressLog) :
            /\ i < j
            /\ progressLog[i].status = "hashing"
            /\ progressLog[j].status = "hashing"
            /\ progressLog[i].current < progressLog[j].current
    /\ \E i \in 1..Len(progressLog), j \in 1..Len(progressLog) :
            /\ i < j
            /\ progressLog[i].status = "comparing"
            /\ progressLog[j].status = "comparing"
            /\ 0 < progressLog[i].current
            /\ progressLog[i].current < progressLog[j].current

InFlight == reading \cup inbox

PulledIds == {pulled[k][2] : k \in 1..Len(pulled)}

\* C16: an item is shifted from the queue at most once and posted to at most
\* one worker, the one that pulled it; when an uncancelled run has resolved
\* every item was pulled exactly once.
C16_PulledOnce ==
    /\ \A i \in 1..Len(pulled), j \in 1..Len(pulled) :
            pulled[i][2] = pulled[j][2] => i = j
    /\ \A p \in posted : \E k \in 1..Len(pulled) :
            pulled[k] = <<p[1], p[2]>>
    /\ \A id \in PulledIds : id \notin Range(queue)
    /\ (hpResolved /\ ~aborted) => PulledIds = Range(photos)

\* an uncancelled run has resolved in which one worker pulled two items and
\* the other worker one
C16_Witness ==
    /\ hpResolved /\ ~aborted
    /\ Len(pulled) = 3
    /\ \E i \in 1..3, j \in 1..3 : i # j /\ pulled[i][1] = pulled[j][1]
    /\ \E i \in 1..3, j \in 1..3 : pulled[i][1] # pulled[j][1]

----------------------------------------------------------------------------
(* Threshold, fallback bucket, scored pairs *)

\* the member sets compareAndGroup returns for the same images at threshold t
GroupsAt(t) ==
    GroupSets(compareAndGroup(photos, Range(photos), hashOf, createdAt, t,
                              NeverAborted).groups)

\* C17: for the same images, every group produced at a higher threshold is
\* inside one group produced at the lower threshold.
C17_ThresholdMonotone ==
    ClusterDone =>
        \A t2 \in Thresholds :
            t2 > threshold =>
                \A g \in GroupsAt(t2) :
                    \E gg \in GroupSets(cOut.groups) : g \subseteq gg

\* raising the threshold took a member out of a group that remains
C17_Witness ==
    /\ ClusterDone
    /\ \E t2 \in Thresholds :
            /\ t2 > threshold
            /\ \E g \in GroupsAt(t2) :
                    \E gg \in GroupSets(cOut.groups) : g \subseteq gg /\ g # gg

\* the unordered pairs of distinct ids of V
AllPairs(V) == {q \in V \X V : q[1] < q[2]}

\* C18: when no image has a parseable timestamp, or more than half of the
\* images have none, buildDateBuckets returns one bucket that holds every
\* image, and every pair of distinct images is compared.
C18_FallbackHoldsAll ==
    (ClusterDone /\ SingleBucketCase(Range(photos), createdAt)) =>
        /\ Len(cOut.buckets) = 1
        /\ cOut.buckets[1].items = photos
        /\ cOut.forest.comparedPairs = AllPairs(Range(photos))

\* two of three images are undated, one has a missing and one an unparseable
\* timestamp, and the third is dated
C18_Witness ==
    /\ ClusterDone
    /\ Len(photos) = 3
    /\ \E a \in Range(photos) : KnownDay(createdAt, a)
    /\ \E a \in Range(photos) : createdAt[a] = NoDate
    /\ \E a \in Range(photos) : createdAt[a] = BadDate
    /\ Cardinality(cOut.forest.comparedPairs) = 3

\* the buckets of the pass that hold both a and b
BucketsWith(buckets, a, b) ==
    {k \in 1..Len(buckets) :
        a \in Range(buckets[k].items) /\ b \in Range(buckets[k].items)}

\* C19: in one clustering pass the similarity of an unordered pair of
\* distinct ids is computed at most once, whatever the number of buckets the
\* pair is in, and no pair of equal ids is scored.
C19_ScoredOnce ==
    ClusterDone =>
        LET scored == cOut.forest.scored
        IN  /\ \A i \in 1..Len(scored), j \in 1..Len(scored) :
                    scored[i] = scored[j] => i = j
            /\ \A i \in 1..Len(scored) : scored[i][1] < scored[i][2]
            /\ cOut.forest.pairsChecked = Len(scored)

\* the list held an id twice, and a pair that is in three buckets was scored
C19_Witness ==
    /\ ClusterDone
    /\ Len(cOut.hashes) > Cardinality(Range(cOut.hashes))
    /\ \E k \in 1..Len(cOut.forest.scored) :
            Cardinality(BucketsWith(cOut.buckets, cOut.forest.scored[k][1],
                                    cOut.forest.scored[k][2])) = 3

\* the signal was aborted before the pass or by a progress callback of it
RaisedInPass == cOut.forest.signal

\* C20: when the signal is aborted while the clustering pass runs, the pass
\* returns no groups; it scores no pair beyond the inner loop in which the
\* signal was aborted, and analyzePhotos returns the empty result.
C20_CancelledPassIsEmpty ==
    (ClusterDone /\ RaisedInPass) =>
        /\ cOut.forest.stopped
        /\ cOut.groups = <<>>
        /\ AnalyzeReturn(cOut.hashes, cOut.groups, RaisedInPass) = NoResult
        /\ IF cOut.forest.abortAt = AbortedBefore
           THEN cOut.forest.pairsChecked = 0
           ELSE cOut.forest.pairsChecked - cOut.forest.abortAt
                    <= Len(cOut.hashes) - 2

\* the signal was aborted by the callback of the last pair of the last
\* bucket, after a union was made
C20_Witness ==
    /\ ClusterDone /\ RaisedInPass
    /\ cOut.forest.abortAt >= 1
    /\ cOut.forest.abortAt = cOut.forest.pairsChecked
    /\ cOut.forest.comparedPairs = AllPairs(Range(photos))
    /\ cOut.forest.unions # <<>>
    /\ Len(photos) = 3

----------------------------------------------------------------------------
(* Identical fingerprints, ordering and disjointness of the groups *)

\* the fingerprint with no bit set
ZeroHash == [i \in 1..HashBytes |-> 0]

\* three hashed images, each with the all-zero fingerprint, grouped at 0.85
ThreeZeroImages ==
    /\ ClusterDone
    /\ Len(photos) = 3
    /\ threshold = DEFAULT_THRESHOLD
    /\ \A a \in Range(photos) : hashOf[a] = ZeroHash

\* the pairs of images that are put into a common bucket
SharedPairs(V, dates) ==
    Range(SelectSeq(PairSeq(SeqOfSet(V)),
                    LAMBDA q : ShareBucket(V, dates, q[1], q[2])))

----------------------------------------------------------------------------
(* hammingDistance and similarity as functions of two fingerprints *)

\* fingerprints whose 32 bytes all hold v
Uniform(v) == [i \in 1..HashBytes |-> v]

\* the all-zero fingerprint with byte k set to v
OneByte(k, v) == [i \in 1..HashBytes |-> IF i = k THEN v ELSE 0]

\* byte values with 0, 1, 4 and 8 bits set, in low and high positions
ByteValues == {0, 1, 85, 128, 170, 255}

FingerprintValues ==
    {Uniform(v) : v \in ByteValues}
        \cup {OneByte(k, v) : k \in {1, HashBytes}, v \in {1, 128, 255}}

DistanceInit ==
    /\ photos = <<>> /\ hashOf = EmptyMap /\ createdAt = EmptyMap
    /\ threshold = DEFAULT_THRESHOLD
    /\ hardwareConcurrency = 0
    /\ Idle
    /\ cPc = "off"
    /\ cOut = NoOutput
    /\ fpPc = "input"
    /\ fpA \in FingerprintValues
    /\ fpB \in FingerprintValues
    /\ fpOut = NoDistance
    /\ ExtractorIdle
    /\ StoreIdle
    /\ UrlsIdle
    /\ DeleteIdle

\* hammingDistance(a, b) and similarity(a, b)
Measure ==
    /\ fpPc = "input"
    /\ fpPc' = "done"
    /\ fpOut' = [distance |-> hammingDistance(fpA, fpB),
                 similarity |-> similarity(fpA, fpB)]
    /\ UNCHANGED <<inputVars, callerVars, poolVars, clusterVars, fpA, fpB,
                   extractorVars, storeVars, urlVars,
                   deleteVars>>

DistanceNext == Measure

SpecDistance == DistanceInit /\ [][DistanceNext]_vars

\* bit k (0 = lowest) of the byte x
BitOf(x, k) == (x \div (2 ^ k)) % 2

\* the bit positions of the two fingerprints that differ
DifferingBits(a, b) ==
    {q \in (1..Len(a)) \X (0..7) : BitOf(a[q[1]], q[2]) # BitOf(b[q[1]], q[2])}

\* C22: for two fingerprints of equal length hammingDistance is the number
\* of bit positions in which they differ, so 0 <= distance <= 256,
\* 0 <= similarity <= 1, and similarity(f, f) = 1.
C22_DistanceCountsBits ==
    fpPc = "done" =>
        /\ Len(fpA) = Len(fpB)
        /\ fpOut.distance = Cardinality(DifferingBits(fpA, fpB))
        /\ 0 <= fpOut.distance /\ fpOut.distance <= HASH_BITS
        /\ 0 <= fpOut.similarity /\ fpOut.similarity <= Scale
        /\ fpA = fpB => fpOut.similarity = Scale

\* two fingerprints that differ in some bits of every byte, not in all
C22_Witness ==
    /\ fpPc = "done"
    /\ fpA = Uniform(85) /\ fpB = Uniform(255)
    /\ fpOut.distance = 4 * HashBytes
    /\ fpOut.similarity = Scale \div 2

----------------------------------------------------------------------------
(* Quality scoring of the hash worker (hashWorker.ts).  The scores are     *)
(* computed in exact arithmetic: a fraction is a record [n, d], and the    *)
(* exposure score, which holds a square root, is kept as the terms it is   *)
(* the sum of; Math.round and the comparisons are evaluated on those.      *)

QUALITY_MAX_DIM == 200
BLOCKS == 4

MaxSide == 5            \* sides of the images too small for blocks, 1..MaxSide

RECURSIVE Gcd(_, _)
Gcd(a, b) == IF b = 0 THEN a ELSE Gcd(b, a % b)

Lcm(a, b) == (a \div Gcd(a, b)) * b

Abs(a) == IF a < 0 THEN -a ELSE a

\* Math.round of the fraction n / d, d > 0: floor(n / d + 1/2)
RoundFraction(f) == (2 * f.n + f.d) \div (2 * f.d)

\* f < g for two fractions over positive denominators
FractionLess(f, g) ==
    LET l == Lcm(f.d, g.d) IN f.n * (l \div f.d) < g.n * (l \div g.d)

\* Math.floor(Math.sqrt(m)): the largest r in lo..hi with r * r <= m
RECURSIVE SqrtBetween(_, _, _)
SqrtBetween(m, lo, hi) ==
    IF lo = hi THEN lo
    ELSE LET mid == (lo + hi + 1) \div 2
         IN  IF mid <= m \div mid THEN SqrtBetween(m, mid, hi)
             ELSE SqrtBetween(m, lo, mid - 1)

SqrtFloor(m) == IF m = 0 THEN 0 ELSE SqrtBetween(m, 1, 46340)

\* gray[idx - w] + gray[idx - 1] + -4 * gray[idx] + gray[idx + 1] + gray[idx + w]
Laplacian(gray, w, x, y) ==
    LET idx == y * w + x
    IN  gray[idx - w] + gray[idx - 1] - 4 * gray[idx] + gray[idx + 1]
            + gray[idx + w]

\* sum, sumSq and count over the cells from..to of the two loops
\* y0 <= y < y1, x0 <= x < x1, cell k being the k-th one visited; the range
\* is added up by halves
RECURSIVE CellStats(_, _, _, _, _, _, _)
CellStats(gray, w, x0, y0, cols, from, to) ==
    IF from > to THEN [sum |-> 0, sumSq |-> 0, count |-> 0]
    ELSE IF from = to
    THEN LET lap == Laplacian(gray, w, x0 + ((from - 1) % cols),
                              y0 + ((from - 1) \div cols))
         IN  [sum |-> lap, sumSq |-> lap * lap, count |-> 1]
    ELSE LET mid == (from + to) \div 2
             lower == CellStats(gray, w, x0, y0, cols, from, mid)
             upper == CellStats(gray, w, x0, y0, cols, mid + 1, to)
         IN  [sum |-> lower.sum + upper.sum,
              sumSq |-> lower.sumSq + upper.sumSq,
              count |-> lower.count + upper.count]

RegionStats(gray, w, x0, y0, x1, y1) ==
    LET cols == Max(x1 - x0, 0)
        rows == Max(y1 - y0, 0)
    IN  CellStats(gray, w, x0, y0, cols, 1, cols * rows)

\* Math.min(variance / 800, 2) * 100
ScoreOfVariance_CapsAtTwo(st) ==
    LET c2 == st.count * st.count
        nv == st.sumSq * st.count - st.sum * st.sum
    IN  IF nv >= 1600 * c2 THEN [n |-> 200, d |-> 1]
        ELSE [n |-> nv, d |-> 8 * c2]

\* Math.min(variance / 800, 1) * 100 with mean = sum / count and
\* variance = sumSq / count - mean * mean = nv / count^2
ScoreOfVariance(st) ==
    LET c2 == st.count * st.count
        nv == st.sumSq * st.count - st.sum * st.sum
    IN  IF nv >= 800 * c2 THEN [n |-> 100, d |-> 1]
        ELSE [n |-> nv, d |-> 8 * c2]

computeLaplacianVariance(gray, w, x0, y0, x1, y1) ==
    LET st == RegionStats(gray, w, x0, y0, x1, y1)
    IN  IF st.count = 0 THEN 50 ELSE RoundFraction(ScoreOfVariance(st))

\* variant: the last block of a row or column is as large as the others
BlockBounds_EqualBlocks(w, h, bw, bh, b) ==
    LET bx == (b - 1) % BLOCKS
        by == (b - 1) \div BLOCKS
    IN  [x0 |-> 1 + bx * bw, y0 |-> 1 + by * bh,
         x1 |-> 1 + bx * bw + bw, y1 |-> 1 + by * bh + bh]

\* x0, y0, x1, y1 of block b = by * BLOCKS + bx + 1
BlockBounds(w, h, bw, bh, b) ==
    LET bx == (b - 1) % BLOCKS
        by == (b - 1) \div BLOCKS
        x0 == 1 + bx * bw
        y0 == 1 + by * bh
        x1 == IF bx = BLOCKS - 1 THEN w - 1 ELSE x0 + bw
        y1 == IF by = BLOCKS - 1 THEN h - 1 ELSE y0 + bh
    IN  [x0 |-> x0, y0 |-> y0, x1 |-> x1, y1 |-> y1]

\* the statistics of block b
BlockStats(gray, w, h, bw, bh, b) ==
    LET r == BlockBounds(w, h, bw, bh, b)
    IN  RegionStats(gray, w, r.x0, r.y0, r.x1, r.y1)

\* the fraction in lowest terms
Reduced(f) ==
    LET g == Gcd(Abs(f.n), f.d) IN [n |-> f.n \div g, d |-> f.d \div g]

\* Math.round(0.7 * maxScore + 0.3 * globalScore)
RoundWeighted(maxScore, globalScore) ==
    LET m == Reduced(maxScore)
        g == Reduced(globalScore)
        l == Lcm(m.d, g.d)
        num == 7 * m.n * (l \div m.d) + 3 * g.n * (l \div g.d)
    IN  RoundFraction([n |-> num, d |-> 10 * l])

computeBlurScore(gray, w, h) ==
    LET bw == (w - 2) \div BLOCKS
        bh == (h - 2) \div BLOCKS
    IN  IF bw < 4 \/ bh < 4
        THEN computeLaplacianVariance(gray, w, 1, 1, w - 2, h - 2)
        ELSE LET stats == [b \in 1..(BLOCKS * BLOCKS) |->
                              BlockStats(gray, w, h, bw, bh, b)]
                 acc[b \in 0..(BLOCKS * BLOCKS)] ==
                     IF b = 0
                     THEN [maxScore |-> [n |-> 0, d |-> 1], sum |-> 0,
                           sumSq |-> 0, count |-> 0]
                     ELSE LET prev == acc[b - 1]
                              score == ScoreOfVariance(stats[b])
                          IN  IF stats[b].count > 0
                              THEN [maxScore |->
                                       IF FractionLess(prev.maxScore, score)
                                       THEN score ELSE prev.maxScore,
                                    sum |-> prev.sum + stats[b].sum,
                                    sumSq |-> prev.sumSq + stats[b].sumSq,
                                    count |-> prev.count + stats[b].count]
                              ELSE prev
                 all == acc[BLOCKS * BLOCKS]
             IN  RoundWeighted(all.maxScore, ScoreOfVariance(all))

\* histogram[Math.min(255, Math.round(lum))]++ for every pixel
Histogram(gray) ==
    [i \in 0..255 |-> Cardinality({k \in DOMAIN gray : gray[k] = i})]

\* the sum of weight[i] * histogram[i] for from <= i <= to, added up by
\* halves
RECURSIVE HistogramSum(_, _, _, _)
HistogramSum(histogram, weight, from, to) ==
    IF from > to THEN 0
    ELSE IF from = to THEN histogram[from] * weight[from]
    ELSE LET mid == (from + to) \div 2
         IN  HistogramSum(histogram, weight, from, mid)
                + HistogramSum(histogram, weight, mid + 1, to)

\* The score before the clamp, in units of 1 / (64 * totalPixels):
\*   0.5 * meanPenalty * 100 = (3200 T - 25 |sum - 128 T|) / (64 T)
\*   0.2 * max(0, clipPenalty) * 100 = (1280 T - min(1280 T, 3840 clip)) / (64 T)
\*   0.3 * spreadScore * 100 = min(32 sqrt(D), 1920 T) / (64 T)
\* with stdDev = sqrt(D) / T and D = sumSq * T - sum * sum.
computeExposureScore(histogram, totalPixels) ==
    LET sum == HistogramSum(histogram, [i \in 0..255 |-> i], 0, 255)
        sumSq == HistogramSum(histogram, [i \in 0..255 |-> i * i], 0, 255)
        one == [i \in 0..255 |-> 1]
        darkClip == HistogramSum(histogram, one, 0, 9)
        brightClip == HistogramSum(histogram, one, 246, 255)
    IN  [rational |-> (3200 * totalPixels - 25 * Abs(sum - 128 * totalPixels))
                        + (1280 * totalPixels
                             - Min(1280 * totalPixels,
                                   3840 * (darkClip + brightClip))),
         radicand |-> Max(0, sumSq * totalPixels - sum * sum),
         totalPixels |-> totalPixels]

\* floor(k * 64 T * Math.max(0, Math.min(100, score))) for an integer k > 0:
\* k * 32 * sqrt(D) is capped at k * 1920 T when stdDev >= 60
FloorOfExposure(e, k) ==
    LET t == e.totalPixels
        spread == IF e.radicand >= 3600 * t * t THEN k * 1920 * t
                  ELSE SqrtFloor(k * k * 1024 * e.radicand)
    IN  Max(0, Min(k * 6400 * t, k * e.rational + spread))

\* Math.round(exposureScore)
RoundExposure(e) ==
    (FloorOfExposure(e, 1) + 32 * e.totalPixels) \div (64 * e.totalPixels)

\* Math.round(0.7 * blurScore + 0.3 * exposureScore)
RoundQuality(blurScore, e) ==
    (448 * e.totalPixels * blurScore + FloorOfExposure(e, 3)
        + 320 * e.totalPixels) \div (640 * e.totalPixels)

\* the message posted for one image: the scores of a bitmap that decodes,
\* an error for a buffer that does not
onmessage(img) ==
    IF ~img.decodable THEN [type |-> "error"]
    ELSE LET blurScore == computeBlurScore(img.gray, img.w, img.h)
             exposureScore ==
                 computeExposureScore(Histogram(img.gray), img.w * img.h)
         IN  [type |-> "result",
              qualityScore |-> RoundQuality(blurScore, exposureScore),
              blurScore |-> RoundFraction([n |-> blurScore, d |-> 1]),
              exposureScore |-> RoundExposure(exposureScore)]

(* Images handed to the worker.  Every pixel is gray (r = g = b), so that  *)
(* the luminance 0.299 r + 0.587 g + 0.114 b is the pixel value, and no     *)
(* side exceeds QUALITY_MAX_DIM, so that the bitmap is drawn unscaled.      *)

Flat(a) == [kind |-> "flat", a |-> a, b |-> a, last |-> FALSE]
Checker(a, b) == [kind |-> "checker", a |-> a, b |-> b, last |-> FALSE]
Spot(a, b, last) == [kind |-> "spot", a |-> a, b |-> b, last |-> last]
Split(a, b) == [kind |-> "split", a |-> a, b |-> b, last |-> FALSE]

\* the pixel of a spot image that differs: the first or the last pixel that
\* has four neighbours when there is one
SpotAt(p, w, h) ==
    IF p.last THEN <<Max(w - 2, 0), Max(h - 2, 0)>>
    ELSE <<Min(1, w - 1), Min(1, h - 1)>>

PatternPixel(p, w, h, x, y) ==
    CASE p.kind = "flat" -> p.a
      [] p.kind = "checker" -> IF (x + y) % 2 = 0 THEN p.a ELSE p.b
      [] p.kind = "spot" -> IF <<x, y>> = SpotAt(p, w, h) THEN p.b ELSE p.a
      [] p.kind = "split" -> IF 2 * x < w THEN p.a ELSE p.b

\* gray[i] for i = y * w + x
Bitmap(p, w, h) ==
    [decodable |-> TRUE, w |-> w, h |-> h,
     gray |-> [i \in 0..(w * h - 1) |-> PatternPixel(p, w, h, i % w, i \div w)]]

SmallPatterns ==
    {Flat(v) : v \in {0, 5, 100, 128, 250, 255}}
        \cup {Checker(100, 110), Checker(0, 255)}
        \cup {Spot(100, 180, l) : l \in BOOLEAN}
        \cup {Spot(80, 5, TRUE)}

\* the smallest side that is split into blocks: (w - 2) / BLOCKS >= 4
MinBlockSide == 4 * BLOCKS + 2

\* pixel values and contrasts of the block images are low enough for every
\* product of the scoring to stay below 2^31
BlockPatterns ==
    {Flat(100), Flat(5), Checker(100, 102), Split(0, 130)}
        \cup {Spot(100, 126, l) : l \in BOOLEAN}

\* sides whose interior is, and is not, a multiple of BLOCKS, and patterns
\* whose products stay below 2^31 with blocks of unequal sizes
BlockWidths == {MinBlockSide, MinBlockSide + 1, MinBlockSide + 3}
BlockHeights == {MinBlockSide, MinBlockSide + 1}
UnevenPatterns == {Flat(100), Flat(5), Checker(100, 102)}

Undecodable == [decodable |-> FALSE, w |-> 0, h |-> 0, gray |-> <<>>]

Images ==
    {Bitmap(p, w, h) : p \in SmallPatterns, w \in 1..MaxSide, h \in 1..MaxSide}
        \cup {Bitmap(p, MinBlockSide, MinBlockSide) : p \in BlockPatterns}
        \cup {Bitmap(p, w, h) : p \in UnevenPatterns, w \in BlockWidths,
                                h \in BlockHeights}
        \cup {Undecodable}

ExtractInit ==
    /\ photos = <<>> /\ hashOf = EmptyMap /\ createdAt = EmptyMap
    /\ threshold = DEFAULT_THRESHOLD
    /\ hardwareConcurrency = 0
    /\ Idle
    /\ cPc = "off"
    /\ cOut = NoOutput
    /\ FingerprintIdle
    /\ StoreIdle
    /\ UrlsIdle
    /\ DeleteIdle
    /\ exPc = "input"
    /\ image \in Images
    /\ Max(image.w, image.h) <= QUALITY_MAX_DIM
    /\ exOut = NoMessage

\* self.onmessage for one 'hash' request
Extract ==
    /\ exPc = "input"
    /\ exPc' = "done"
    /\ exOut' = onmessage(image)
    /\ UNCHANGED <<inputVars, callerVars, poolVars, clusterVars,
                   fingerprintVars, storeVars, urlVars,
                   deleteVars, image>>

ExtractNext == Extract

SpecExtract == ExtractInit /\ [][ExtractNext]_vars

Emitted == exPc = "done" /\ exOut.type = "result"

\* C23: in every result emitted, qualityScore is
\* round(0.7 * blurScore + 0.3 * exposureScore) of the blurScore and the
\* exposureScore reported in that result.
C23_QualityFromReported ==
    Emitted =>
        exOut.qualityScore =
            (7 * exOut.blurScore + 3 * exOut.exposureScore + 5) \div 10

\* C24: for every input that decodes, the reported blurScore, exposureScore
\* and qualityScore lie in 0..100.
C24_ScoresInRange ==
    exPc = "done" /\ image.decodable =>
        /\ exOut.type = "result"
        /\ exOut.blurScore \in 0..100
        /\ exOut.exposureScore \in 0..100
        /\ exOut.qualityScore \in 0..100

\* a block image whose sharpest block is above the cap of the blur score
C24_Witness ==
    /\ Emitted
    /\ image.w = MinBlockSide
    /\ \E b \in 1..(BLOCKS * BLOCKS) :
          LET st == BlockStats(image.gray, image.w, image.h, 4, 4, b)
          IN  st.sumSq * st.count - st.sum * st.sum
                  > 800 * st.count * st.count
    /\ exOut.blurScore > 70

\* the image is too small for blocks and has pixels with four neighbours
TooSmallForBlocks ==
    /\ image.decodable
    /\ (image.w - 2) \div BLOCKS < 4 \/ (image.h - 2) \div BLOCKS < 4
    /\ image.w >= 3 /\ image.h >= 3

\* the mapped Laplacian variance over 1 <= x <= w - 2, 1 <= y <= h - 2
WholeInteriorScore ==
    RoundFraction(ScoreOfVariance(
        RegionStats(image.gray, image.w, 1, 1, image.w - 1, image.h - 1)))

\* C25: for an image too small for 4x4 blocks the blur score is the mapped
\* Laplacian variance over every pixel (x, y) with 1 <= x <= w - 2 and
\* 1 <= y <= h - 2.
C25_FallbackCoversInterior ==
    exPc = "done" /\ TooSmallForBlocks =>
        exOut.blurScore = WholeInteriorScore

----------------------------------------------------------------------------
(* compareAndGroup on lists long enough for several groups: two            *)
(* fingerprints that are not similar to each other, and timestamps one      *)
(* millisecond apart across midnight                                        *)

MaxListed == 5          \* hashed images of the longer lists, 0..MaxListed

ListHashValues == {Fill(1, 0), Fill(17, 32)}

ListCreatedAtValues == {NoDate, DateAt(DAY_MS - 1), DateAt(DAY_MS)}

ListInit ==
    /\ \E n \in 0..MaxListed :
          /\ photos = IdSeq(n)
          /\ hashOf \in [Ids(n) -> ListHashValues]
          /\ createdAt \in [Ids(n) -> ListCreatedAtValues]
    /\ threshold = DEFAULT_THRESHOLD
    /\ hardwareConcurrency = 0
    /\ Idle
    /\ SideIdle
    /\ cPc = "input"
    /\ cOut = NoOutput

CompareList ==
    /\ cPc = "input"
    /\ cPc' = "done"
    /\ cOut' = compareAndGroup(photos, Range(photos), hashOf, createdAt,
                               threshold, NeverAborted)
    /\ UNCHANGED <<inputVars, sideVars, callerVars, poolVars>>

ListNext == CompareList

SpecList == ListInit /\ [][ListNext]_vars

\* C26: the list of groups compareAndGroup returns is ordered by
\* non-increasing member count.
C26_GroupsSorted ==
    ClusterDone =>
        \A k \in 1..(Len(cOut.groups) - 1) :
            Len(cOut.groups[k].photos) >= Len(cOut.groups[k + 1].photos)

\* a group of three is returned before a group of two that holds image 1
C26_Witness ==
    /\ ClusterDone
    /\ Len(cOut.groups) = 2
    /\ Len(cOut.groups[1].photos) = 3
    /\ Len(cOut.groups[2].photos) = 2
    /\ 1 \in Range(cOut.groups[2].photos)

\* the two images carry timestamps less than 24 hours apart
LessThanADayApart(a, b) ==
    /\ KnownDay(createdAt, a) /\ KnownDay(createdAt, b)
    /\ Abs(createdAt[a].ms - createdAt[b].ms) < DAY_MS

\* C28: two hashed images with parseable timestamps less than 24 hours
\* apart are in a common bucket and their similarity is computed.
C28_CloseInTimeCompared ==
    ClusterDone =>
        \A a \in Range(photos), b \in Range(photos) :
            a < b /\ LessThanADayApart(a, b) =>
                /\ BucketsWith(cOut.buckets, a, b) # {}
                /\ PairKey(a, b) \in Range(cOut.forest.scored)

\* two images on either side of midnight met in day buckets and were scored
C28_Witness ==
    /\ ClusterDone
    /\ \E a \in Range(photos), b \in Range(photos) :
          /\ a < b /\ LessThanADayApart(a, b)
          /\ DayIndex(createdAt[a]) # DayIndex(createdAt[b])
          /\ cOut.buckets[1].key # AllKey
          /\ Cardinality(BucketsWith(cOut.buckets, a, b)) = 2
          /\ PairKey(a, b) \in Range(cOut.forest.scored)

\* C29: the groups of one compareAndGroup call are pairwise disjoint, also
\* when an image is in several buckets.
C29_GroupsDisjoint ==
    ClusterDone =>
        \A i \in 1..Len(cOut.groups), j \in 1..Len(cOut.groups) :
            i # j =>
                Range(cOut.groups[i].photos) \cap Range(cOut.groups[j].photos)
                    = {}

\* two groups came out of images that all share one bucket with an image of
\* the other group
C29_Witness ==
    /\ ClusterDone
    /\ Len(cOut.groups) = 2
    /\ cOut.buckets[1].key # AllKey
    /\ \A a \in Range(cOut.groups[1].photos) :
          \E b \in Range(cOut.groups[2].photos) :
              BucketsWith(cOut.buckets, a, b) # {}

----------------------------------------------------------------------------
(* compareAndGroup on the hashes in the order the workers answered          *)

ShuffleCreatedAtValues == {NoDate, DateAt(DAY_MS - 1), DateAt(2 * DAY_MS)}

ShuffleInit ==
    /\ \E n \in 0..MaxImages :
          /\ photos = IdSeq(n)
          /\ hashOf \in [Ids(n) -> HashValues]
          /\ createdAt \in [Ids(n) -> ShuffleCreatedAtValues]
    /\ threshold = DEFAULT_THRESHOLD
    /\ hardwareConcurrency = 0
    /\ Idle
    /\ SideIdle
    /\ cPc = "input"
    /\ cOut = NoOutput

\* the orders in which results.push(...) can have filled the list
ArrivalOrders ==
    {s \in [1..Len(photos) -> Range(photos)] : Range(s) = Range(photos)}

CompareShuffled ==
    /\ cPc = "input"
    /\ cPc' = "done"
    /\ \E hashes \in ArrivalOrders :
            cOut' = compareAndGroup(hashes, Range(photos), hashOf, createdAt,
                                    threshold, NeverAborted)
    /\ UNCHANGED <<inputVars, sideVars, callerVars, poolVars>>

ShuffleNext == CompareShuffled

SpecShuffle == ShuffleInit /\ [][ShuffleNext]_vars

\* C30: the member sets of the groups are the same for every order of the
\* hashes list: they are those obtained for the order of the photos.
C30_OrderIndependent ==
    ClusterDone =>
        GroupSets(cOut.groups) =
            GroupSets(compareAndGroup(photos, Range(photos), hashOf,
                                      createdAt, threshold,
                                      NeverAborted).groups)

\* the results arrived in another order than the photos, the image that
\* links the two others last, and the three came out as one group
C30_Witness ==
    /\ ClusterDone
    /\ Len(photos) = 3
    /\ cOut.hashes = <<3, 2, 1>>
    /\ hashOf = <<Fill(1, 0), Fill(1, 2), Fill(3, 5)>>
    /\ GroupSets(cOut.groups) = {{1, 2, 3}}

----------------------------------------------------------------------------
(* photoStore: photos, similarity groups and the internal trash.  A photo   *)
(* is [id, path]; ids of photos and of trash items are fresh values of      *)
(* crypto.randomUUID.  The toasts the actions add are left out.             *)

MaxFiles == 3           \* image files in the scanned folders
MaxScans == 2           \* analyses that complete
MaxTrashItems == 2      \* trash items created

\* groups.map(g => g.photos.filter(p => !gone(p))).filter(g => g.length >= 2)
\* variant: the groups left with fewer than 2 photos are kept
PruneGroups_KeepsSmall(groups, gone) ==
    [k \in 1..Len(groups) |-> SelectSeq(groups[k], LAMBDA p : p.id \notin gone)]

PruneGroups(groups, gone) ==
    SelectSeq([k \in 1..Len(groups) |->
                  SelectSeq(groups[k], LAMBDA p : p.id \notin gone)],
              LAMBDA g : Len(g) >= 2)

\* setPhotos(photosWithQuality); setSimilarityGroups(groups) at the end of
\* handleStartAnalysis: the scan gave every file a fresh id
AnalysisDone ==
    /\ scans < MaxScans
    /\ \E n \in 1..MaxFiles : \E grouped \in BOOLEAN :
          LET found == [k \in 1..n |-> [id |-> nextPhotoId + k - 1, path |-> k]]
          IN  /\ storePhotos' = found
              /\ similarityGroups' = IF grouped /\ n >= 2 THEN <<found>> ELSE <<>>
              /\ nextPhotoId' = nextPhotoId + n
    /\ scans' = scans + 1
    /\ lastOp' = NoOp
    /\ UNCHANGED <<trashItems, nextItemId>>
    /\ UNCHANGED <<inputVars, callerVars, poolVars, clusterVars,
                   fingerprintVars, extractorVars, urlVars,
                   deleteVars>>

\* the photos the views can hand to addToTrash
ShownPhotos ==
    Range(storePhotos)
        \cup UNION {Range(similarityGroups[k]) : k \in 1..Len(similarityGroups)}

AddToTrash(photo) ==
    /\ IF \E k \in 1..Len(trashItems) : trashItems[k].photo.path = photo.path
       THEN UNCHANGED <<storePhotos, similarityGroups, trashItems, nextItemId>>
       ELSE /\ nextItemId <= MaxTrashItems
            /\ trashItems' = Append(trashItems,
                                    [id |-> nextItemId, photo |-> photo,
                                     via |-> "addToTrash"])
            /\ storePhotos' = SelectSeq(storePhotos, LAMBDA p : p.id # photo.id)
            /\ similarityGroups' = PruneGroups(similarityGroups, {photo.id})
            /\ nextItemId' = nextItemId + 1
    /\ lastOp' = NoOp
    /\ UNCHANGED <<nextPhotoId, scans>>
    /\ UNCHANGED <<inputVars, callerVars, poolVars, clusterVars,
                   fingerprintVars, extractorVars, urlVars,
                   deleteVars>>

\* variant: the item stays in the trash
RestoreFromTrash_KeepsItem(id) ==
    /\ IF \E k \in 1..Len(trashItems) : trashItems[k].id = id
       THEN LET item == trashItems[CHOOSE k \in 1..Len(trashItems) :
                                       trashItems[k].id = id]
            IN  /\ storePhotos' = Append(storePhotos, item.photo)
                /\ lastOp' = [op |-> "restore", photo |-> item.photo.id,
                              item |-> id, via |-> item.via]
                /\ UNCHANGED trashItems
       ELSE /\ lastOp' = NoOp
            /\ UNCHANGED <<storePhotos, trashItems>>
    /\ UNCHANGED <<similarityGroups, nextPhotoId, nextItemId, scans>>
    /\ UNCHANGED <<inputVars, callerVars, poolVars, clusterVars,
                   fingerprintVars, extractorVars, urlVars,
                   deleteVars>>

RestoreFromTrash(id) ==
    /\ IF \E k \in 1..Len(trashItems) : trashItems[k].id = id
       THEN LET item == trashItems[CHOOSE k \in 1..Len(trashItems) :
                                       trashItems[k].id = id]
            IN  /\ trashItems' = SelectSeq(trashItems, LAMBDA t : t.id # id)
                /\ storePhotos' = Append(storePhotos, item.photo)
                /\ lastOp' = [op |-> "restore", photo |-> item.photo.id,
                              item |-> id, via |-> item.via]
       ELSE /\ lastOp' = NoOp
            /\ UNCHANGED <<storePhotos, trashItems>>
    /\ UNCHANGED <<similarityGroups, nextPhotoId, nextItemId, scans>>
    /\ UNCHANGED <<inputVars, callerVars, poolVars, clusterVars,
                   fingerprintVars, extractorVars, urlVars,
                   deleteVars>>

EmptyTrash ==
    /\ trashItems' = <<>>
    /\ lastOp' = NoOp
    /\ UNCHANGED <<storePhotos, similarityGroups, nextPhotoId, nextItemId, scans>>
    /\ UNCHANGED <<inputVars, callerVars, poolVars, clusterVars,
                   fingerprintVars, extractorVars, urlVars,
                   deleteVars>>

\* trashSelected with selectedIds = selected
TrashSelected(selected) ==
    LET photosToTrash == SelectSeq(storePhotos, LAMBDA p : p.id \in selected)
        newTrashItems ==
            [k \in 1..Len(photosToTrash) |->
                [id |-> nextItemId + k - 1, photo |-> photosToTrash[k],
                 via |-> "trashSelected"]]
    IN  /\ IF Len(photosToTrash) = 0
           THEN UNCHANGED <<storePhotos, similarityGroups, trashItems, nextItemId>>
           ELSE /\ nextItemId + Len(photosToTrash) - 1 <= MaxTrashItems
                /\ storePhotos' =
                       SelectSeq(storePhotos, LAMBDA p : p.id \notin selected)
                /\ trashItems' = trashItems \o newTrashItems
                /\ similarityGroups' = PruneGroups(similarityGroups, selected)
                /\ nextItemId' = nextItemId + Len(photosToTrash)
        /\ lastOp' = NoOp
        /\ UNCHANGED <<nextPhotoId, scans>>
        /\ UNCHANGED <<inputVars, callerVars, poolVars, clusterVars,
                       fingerprintVars, extractorVars, urlVars,
                   deleteVars>>

StoreInit ==
    /\ photos = <<>> /\ hashOf = EmptyMap /\ createdAt = EmptyMap
    /\ threshold = DEFAULT_THRESHOLD
    /\ hardwareConcurrency = 0
    /\ Idle
    /\ cPc = "off"
    /\ cOut = NoOutput
    /\ FingerprintIdle
    /\ ExtractorIdle
    /\ StoreIdle
    /\ UrlsIdle
    /\ DeleteIdle

StoreNext ==
    \/ AnalysisDone
    \/ \E photo \in ShownPhotos : AddToTrash(photo)
    \/ \E id \in 1..MaxTrashItems : RestoreFromTrash(id)
    \/ EmptyTrash
    \/ \E selected \in SUBSET {p.id : p \in Range(storePhotos)} :
          TrashSelected(selected)

SpecStore == StoreInit /\ [][StoreNext]_vars

\* the entries of store.photos that hold the photo id
PhotoCount(id) == Cardinality({k \in 1..Len(storePhotos) : storePhotos[k].id = id})

InTrash(id) == \E k \in 1..Len(trashItems) : trashItems[k].photo.id = id

\* C27: when the trash item that addToTrash(p) created is restored, p is in
\* photos exactly once and in no trash item.
C27_RestoredOnce ==
    lastOp.op = "restore" /\ lastOp.via = "addToTrash" =>
        /\ PhotoCount(lastOp.photo) = 1
        /\ ~InTrash(lastOp.photo)

\* a photo trashed with addToTrash is back, behind a photo that stayed, while
\* another item is still in the trash
C27_Witness ==
    /\ lastOp.op = "restore" /\ lastOp.via = "addToTrash"
    /\ Len(storePhotos) >= 2
    /\ storePhotos[Len(storePhotos)].id = lastOp.photo
    /\ trashItems # <<>>

----------------------------------------------------------------------------
(* C31 *)

\* the ids of the list that find() places under the root
SetOfRoot(forest, hashes, root) ==
    {id \in Range(hashes) : FindRoot(forest.parent, id) = root}

\* C31: every emitted group reports a similarity between the threshold and 1,
\* and it is the value recorded for its root; the root of every set with at
\* least 2 members has an entry in groupSimilarity.
C31_SimilarityRecorded ==
    cPc = "done" =>
        /\ \A k \in 1..Len(cOut.groups) :
            LET g == cOut.groups[k]
                root == FindRoot(cOut.forest.parent, g.photos[1])
            IN  /\ ScaledThreshold(threshold) <= g.similarity
                /\ g.similarity <= Scale
                /\ root \in DOMAIN cOut.forest.groupSimilarity
                /\ g.similarity = cOut.forest.groupSimilarity[root]
        /\ \A id \in Range(cOut.hashes) :
            LET root == FindRoot(cOut.forest.parent, id)
            IN  Cardinality(SetOfRoot(cOut.forest, cOut.hashes, root)) >= 2
                    => root \in DOMAIN cOut.forest.groupSimilarity

\* a list holding an id twice gives a group whose similarity lies strictly
\* between the threshold and 1, next to an image left alone
C31_Witness ==
    /\ cPc = "done"
    /\ Len(cOut.hashes) > Cardinality(Range(cOut.hashes))
    /\ \E k \in 1..Len(cOut.groups) :
          /\ ScaledThreshold(threshold) < cOut.groups[k].similarity
          /\ cOut.groups[k].similarity < Scale
    /\ \E id \in Range(cOut.hashes) :
          Cardinality(SetOfRoot(cOut.forest, cOut.hashes,
                                FindRoot(cOut.forest.parent, id))) = 1

----------------------------------------------------------------------------
(* C32 *)

\* C32 (as claimed): after the user cancelled, isAnalyzing eventually becomes
\* false and stays false, whatever scan callbacks, reads and progress
\* callbacks were still pending.
C32_IdleAfterCancel == aborted ~> [](~isAnalyzing)

----------------------------------------------------------------------------
(* fileSystemService: the registries of file entries and of blob URLs.     *)
(* One action is one task of the event loop: an exported function up to    *)
(* its first await, or the continuation of a pending getFile().            *)

MaxCalls == 3
MaxRegistered == 2

\* preloadBlobUrls(photoIds, concurrency = 6)
PRELOAD_CONCURRENCY == 6

MapRemove(m, k) == [x \in (DOMAIN m) \ {k} |-> m[x]]

MapValues(m) == {m[x] : x \in DOMAIN m}

UrlsInit ==
    /\ photos = <<>> /\ hashOf = EmptyMap /\ createdAt = EmptyMap
    /\ threshold = DEFAULT_THRESHOLD
    /\ hardwareConcurrency = 0
    /\ Idle
    /\ cPc = "off"
    /\ cOut = NoOutput
    /\ SideIdle

\* what the other modules hold
UrlsUnchanged ==
    UNCHANGED <<inputVars, callerVars, poolVars, clusterVars, fingerprintVars,
                extractorVars, storeVars>>

\* the ids scanDirectory registered: each was given a thumbnail
Registered == {u.id : u \in {v \in objectUrls : v.kind = "thumb"}}

\* scanDirectory for one image file: the entry is registered and a thumbnail
\* URL is created, from the bitmap or, when it cannot be decoded, from the file
RegisterFile ==
    /\ Cardinality(Registered) < MaxRegistered
    /\ LET id == Cardinality(Registered) + 1
       IN  /\ fileRegistry' = fileRegistry \cup {id}
           /\ thumbUrlRegistry' = MapSet(thumbUrlRegistry, id, nextUrl)
           /\ objectUrls' = objectUrls \cup
                  {[url |-> nextUrl, id |-> id, kind |-> "thumb"]}
           /\ nextUrl' = nextUrl + 1
           /\ disk' = disk \cup {id}
    /\ UNCHANGED <<blobUrlRegistry, urlCalls, revokedUrls, nextCall>>
    /\ UNCHANGED <<del, removedFiles>>
    /\ UrlsUnchanged

\* the part of getBlobUrl and getFullBlobUrl after the cached values were
\* looked up: the call throws for an unknown id and else awaits getFile()
AwaitFile(fn, id, call) ==
    IF id \notin fileRegistry THEN {}
    ELSE {[call |-> call, id |-> id, fn |-> fn]}

\* getBlobUrl(photoId) up to its await
GetBlobUrlCall(id, call) ==
    IF id \in DOMAIN thumbUrlRegistry THEN {}
    ELSE IF id \in DOMAIN blobUrlRegistry THEN {}
    ELSE AwaitFile("getBlobUrl", id, call)

\* getFullBlobUrl(photoId) up to its await
GetFullBlobUrlCall(id, call) ==
    IF id \in DOMAIN blobUrlRegistry THEN {}
    ELSE AwaitFile("getFullBlobUrl", id, call)

GetBlobUrl(id) ==
    /\ nextCall <= MaxCalls
    /\ nextCall' = nextCall + 1
    /\ urlCalls' = urlCalls \cup GetBlobUrlCall(id, nextCall)
    /\ UNCHANGED <<fileRegistry, blobUrlRegistry, thumbUrlRegistry, objectUrls,
                   revokedUrls, nextUrl>>
    /\ UNCHANGED deleteVars
    /\ UrlsUnchanged

GetFullBlobUrl(id) ==
    /\ nextCall <= MaxCalls
    /\ nextCall' = nextCall + 1
    /\ urlCalls' = urlCalls \cup GetFullBlobUrlCall(id, nextCall)
    /\ UNCHANGED <<fileRegistry, blobUrlRegistry, thumbUrlRegistry, objectUrls,
                   revokedUrls, nextUrl>>
    /\ UNCHANGED deleteVars
    /\ UrlsUnchanged

\* getFile() resolved: const url = URL.createObjectURL(file);
\* blobUrlRegistry.set(photoId, url); return url
CreateUrl(c) ==
    /\ urlCalls' = urlCalls \ {c}
    /\ objectUrls' = objectUrls \cup
           {[url |-> nextUrl, id |-> c.id, kind |-> "full"]}
    /\ blobUrlRegistry' = MapSet(blobUrlRegistry, c.id, nextUrl)
    /\ nextUrl' = nextUrl + 1
    /\ UNCHANGED <<fileRegistry, thumbUrlRegistry, revokedUrls, nextCall>>
    /\ UNCHANGED deleteVars
    /\ UrlsUnchanged

\* getFile() rejected (the file is gone): the call rejects
GetFileRejects(c) ==
    /\ urlCalls' = urlCalls \ {c}
    /\ UNCHANGED <<fileRegistry, blobUrlRegistry, thumbUrlRegistry, objectUrls,
                   revokedUrls, nextUrl, nextCall>>
    /\ UNCHANGED deleteVars
    /\ UrlsUnchanged

\* preloadBlobUrls(photoIds) for a list no longer than the concurrency: each
\* worker takes one id, calls getBlobUrl and finds the list exhausted when it
\* resumes
PreloadBlobUrls(photoIds) ==
    LET toLoad == SelectSeq(photoIds,
                    LAMBDA id : id \notin DOMAIN blobUrlRegistry
                                /\ id \in fileRegistry)
    IN  /\ Len(toLoad) <= PRELOAD_CONCURRENCY
        /\ nextCall + Len(toLoad) - 1 <= MaxCalls
        /\ nextCall' = nextCall + Len(toLoad)
        /\ urlCalls' = urlCalls \cup
               UNION {GetBlobUrlCall(toLoad[k], nextCall + k - 1) :
                        k \in 1..Len(toLoad)}
        /\ UNCHANGED <<fileRegistry, blobUrlRegistry, thumbUrlRegistry,
                       objectUrls, revokedUrls, nextUrl>>
        /\ UNCHANGED deleteVars
        /\ UrlsUnchanged

\* the registries and the revoked URLs after revokeBlobUrl(photoId)
AfterRevokeBlobUrl(id) ==
    [revoked |-> revokedUrls
        \cup (IF id \in DOMAIN blobUrlRegistry
              THEN {blobUrlRegistry[id]} ELSE {})
        \cup (IF id \in DOMAIN thumbUrlRegistry
              THEN {thumbUrlRegistry[id]} ELSE {}),
     blob |-> MapRemove(blobUrlRegistry, id),
     thumb |-> MapRemove(thumbUrlRegistry, id)]

RevokeBlobUrl(id) ==
    /\ revokedUrls' = AfterRevokeBlobUrl(id).revoked
    /\ blobUrlRegistry' = AfterRevokeBlobUrl(id).blob
    /\ thumbUrlRegistry' = AfterRevokeBlobUrl(id).thumb
    /\ UNCHANGED <<fileRegistry, urlCalls, objectUrls, nextUrl, nextCall>>
    /\ UNCHANGED deleteVars
    /\ UrlsUnchanged

RevokeAllBlobUrls ==
    /\ revokedUrls' = revokedUrls \cup MapValues(blobUrlRegistry)
                                  \cup MapValues(thumbUrlRegistry)
    /\ blobUrlRegistry' = EmptyMap
    /\ thumbUrlRegistry' = EmptyMap
    /\ UNCHANGED <<fileRegistry, urlCalls, objectUrls, nextUrl, nextCall>>
    /\ UNCHANGED deleteVars
    /\ UrlsUnchanged

\* the ids the interface knows, and one it does not
UrlIds == 1..(MaxRegistered + 1)

\* the lists handed to preloadBlobUrls
PreloadLists == {<<a>> : a \in UrlIds} \cup {<<a, b>> : a, b \in UrlIds}

UrlsNext ==
    \/ RegisterFile
    \/ \E id \in UrlIds : GetBlobUrl(id)
    \/ \E id \in UrlIds : GetFullBlobUrl(id)
    \/ \E c \in urlCalls : CreateUrl(c)
    \/ \E c \in urlCalls : GetFileRejects(c)
    \/ \E photoIds \in PreloadLists : PreloadBlobUrls(photoIds)
    \/ \E id \in UrlIds : RevokeBlobUrl(id)
    \/ RevokeAllBlobUrls

SpecUrls == UrlsInit /\ [][UrlsNext]_vars

----------------------------------------------------------------------------
(* C33 *)

\* C33 (as claimed): a full-resolution URL that was created and not revoked
\* is the one blobUrlRegistry holds for its photo, also when getFullBlobUrl
\* and getBlobUrl run concurrently for one id; hence after revokeAllBlobUrls
\* no created URL is left unrevoked.
C33_CreatedUrlIsRegistered ==
    \A u \in objectUrls :
        (u.kind = "full" /\ u.url \notin revokedUrls)
            => /\ u.id \in DOMAIN blobUrlRegistry
               /\ blobUrlRegistry[u.id] = u.url

----------------------------------------------------------------------------
(* deleteFiles(photoIds): one action per task, the awaits being getFile()  *)
(* and removeEntry().  A file may also disappear from its directory by     *)
(* other means while the call is pending.                                  *)

MaxDeleted == 3

\* file.size
FileSize(id) == 10 * id

\* errors.push(...)
PushError(d, id, why) ==
    [d EXCEPT !.errors = Append(@, [id |-> id, why |-> why])]

\* the for loop from position d.pos up to the next await or to the return:
\* ids without an entry are reported and skipped
RECURSIVE DeleteLoop(_, _)
DeleteLoop(d, registry) ==
    IF d.pos > Len(d.photoIds) THEN [d EXCEPT !.pc = "done"]
    ELSE IF d.photoIds[d.pos] \notin registry
         THEN DeleteLoop([PushError(d, d.photoIds[d.pos], "not found")
                            EXCEPT !.pos = @ + 1], registry)
         ELSE [d EXCEPT !.pc = "getFile"]

\* variant: the catch block leaves the loop
CatchDelete_Returns(d, registry) ==
    [PushError(d, d.photoIds[d.pos], "failed") EXCEPT !.pc = "done"]

\* catch (err) { errors.push(...) }, then the next iteration
CatchDelete(d, registry) ==
    DeleteLoop([PushError(d, d.photoIds[d.pos], "failed")
                  EXCEPT !.pos = @ + 1], registry)

DeleteUnchanged ==
    /\ UNCHANGED <<urlCalls, objectUrls, nextUrl, nextCall>>
    /\ UrlsUnchanged

\* deleteFiles(photoIds) up to its first await
DeleteFiles(photoIds) ==
    /\ del.pc = "off"
    /\ del' = DeleteLoop([NoDelete EXCEPT !.photoIds = photoIds], fileRegistry)
    /\ UNCHANGED <<fileRegistry, blobUrlRegistry, thumbUrlRegistry, revokedUrls,
                   disk, removedFiles>>
    /\ DeleteUnchanged

\* entry.fileHandle.getFile() resolved
DeleteGetFileResolves ==
    /\ del.pc = "getFile"
    /\ del.photoIds[del.pos] \in disk
    /\ del' = [del EXCEPT !.pc = "removeEntry"]
    /\ UNCHANGED <<fileRegistry, blobUrlRegistry, thumbUrlRegistry, revokedUrls,
                   disk, removedFiles>>
    /\ DeleteUnchanged

\* getFile() or removeEntry() rejected: the file is gone or may not be removed
DeleteRejects ==
    /\ del.pc \in {"getFile", "removeEntry"}
    /\ del' = CatchDelete(del, fileRegistry)
    /\ UNCHANGED <<fileRegistry, blobUrlRegistry, thumbUrlRegistry, revokedUrls,
                   disk, removedFiles>>
    /\ DeleteUnchanged

\* removeEntry() resolved: the file is counted and its entries are dropped
RemoveEntryResolves ==
    LET id == del.photoIds[del.pos]
        registry == fileRegistry \ {id}
    IN  /\ del.pc = "removeEntry"
        /\ id \in disk
        /\ disk' = disk \ {id}
        /\ removedFiles' = removedFiles \cup {id}
        /\ revokedUrls' = AfterRevokeBlobUrl(id).revoked
        /\ blobUrlRegistry' = AfterRevokeBlobUrl(id).blob
        /\ thumbUrlRegistry' = AfterRevokeBlobUrl(id).thumb
        /\ fileRegistry' = registry
        /\ del' = DeleteLoop(
                     [del EXCEPT !.deleted_count = @ + 1,
                                 !.freed_bytes = @ + FileSize(id),
                                 !.pos = @ + 1], registry)
        /\ DeleteUnchanged

\* the file is removed from its directory by someone else
FileVanishes(id) ==
    /\ id \in disk
    /\ disk' = disk \ {id}
    /\ UNCHANGED <<fileRegistry, blobUrlRegistry, thumbUrlRegistry, revokedUrls,
                   del, removedFiles>>
    /\ DeleteUnchanged

\* the lists handed to deleteFiles: known and unknown ids, possibly repeated
DeleteLists ==
    UNION {[1..n -> UrlIds] : n \in 0..MaxDeleted}

DeleteNext ==
    \/ RegisterFile
    \/ \E photoIds \in DeleteLists : DeleteFiles(photoIds)
    \/ DeleteGetFileResolves
    \/ DeleteRejects
    \/ RemoveEntryResolves
    \/ \E id \in UrlIds : FileVanishes(id)

SpecDelete == UrlsInit /\ [][DeleteNext]_vars

----------------------------------------------------------------------------
(* C38 *)

\* C38: deleted_count + errors.length counts the ids handled so far and equals
\* ids.length when deleteFiles returns; every id of the list was deleted or
\* has an error, whatever failed before it; the registry entry of a photo is
\* removed if and only if removeEntry removed its file.
C38_EveryIdAccounted ==
    /\ del.pc \in {"getFile", "removeEntry"} =>
           del.deleted_count + Len(del.errors) = del.pos - 1
    /\ del.pc = "done" =>
           /\ del.deleted_count + Len(del.errors) = Len(del.photoIds)
           /\ \A k \in 1..Len(del.photoIds) :
                 \/ del.photoIds[k] \in removedFiles
                 \/ \E e \in 1..Len(del.errors) :
                       del.errors[e].id = del.photoIds[k]
    /\ del.deleted_count = Cardinality(removedFiles)
    /\ \A id \in Registered : id \notin fileRegistry <=> id \in removedFiles

\* a call returned after a failure on its first id and a deletion after it
C38_Witness ==
    /\ del.pc = "done"
    /\ Len(del.errors) >= 1
    /\ del.errors[1] = [id |-> del.photoIds[1], why |-> "failed"]
    /\ del.deleted_count >= 1
    /\ del.photoIds[1] \in fileRegistry
    /\ \E k \in 2..Len(del.photoIds) : del.photoIds[k] \in removedFiles

----------------------------------------------------------------------------
(* C34 *)

\* C34: the number of pairs scored in a pass never exceeds the estimate made
\* upfront, the sum over the buckets of n(n-1)/2.
C34_ScoredWithinEstimate ==
    cPc = "done" =>
        /\ cOut.forest.pairsChecked = Len(cOut.forest.scored)
        /\ cOut.forest.pairsChecked <= estimatePairs(cOut.hashes, createdAt)

\* overlapping buckets: a full pass scores pairs, and fewer than estimated
C34_Witness ==
    /\ cPc = "done"
    /\ ~cOut.forest.stopped
    /\ cOut.forest.pairsChecked >= 2
    /\ cOut.forest.pairsChecked < estimatePairs(cOut.hashes, createdAt)

----------------------------------------------------------------------------
(* C35 *)

\* the ids of the photos a step added to the trash
MovedToTrash(before, after) ==
    {after[k].photo.id : k \in (Len(before) + 1)..Len(after)}

\* C35: after an addToTrash or trashSelected that moved photos to the trash,
\* every group left has at least 2 photos and none of the photos just
\* trashed, and these photos are no longer in photos.
C35_TrashedLeaveGroups ==
    [][Len(trashItems') > Len(trashItems) =>
          LET moved == MovedToTrash(trashItems, trashItems')
          IN  /\ \A g \in 1..Len(similarityGroups') :
                    /\ Len(similarityGroups'[g]) >= 2
                    /\ \A p \in Range(similarityGroups'[g]) : p.id \notin moved
              /\ \A p \in Range(storePhotos') : p.id \notin moved]_vars

\* one photo of a group of three is in the trash and the group is left with
\* the two others
C35_Witness ==
    /\ Len(trashItems) = 1
    /\ Len(similarityGroups) = 1
    /\ Len(similarityGroups[1]) = 2
    /\ Len(storePhotos) = 2
    /\ \A p \in Range(similarityGroups[1]) : p.id # trashItems[1].photo.id
    /\ trashItems[1].photo.id + 1 \in {p.id : p \in Range(storePhotos)}

----------------------------------------------------------------------------
(* The store's analysis flags under any sequence of setAnalysisProgress,   *)
(* startAnalysis and stopAnalysis                                          *)

MaxProgress == 4

\* AnalysisProgress['status']
Statuses == {"idle", "scanning", "hashing", "comparing", "complete"}

ProgressValues ==
    {Progress(c, t, s) : c \in 0..MaxProgress, t \in 0..MaxProgress,
                         s \in Statuses}

FlagsUnchanged ==
    UNCHANGED <<inputVars, sideVars, callerPc, scansLeft, abortRef, aborted,
                progressLog, poolVars, clusterVars>>

\* store.setAnalysisProgress(progress)
StoreSetAnalysisProgress(progress) ==
    /\ SetAnalysisProgress(<<progress>>)
    /\ FlagsUnchanged

\* store.startAnalysis()
StoreStartAnalysis ==
    /\ isAnalyzing' = TRUE
    /\ analysisProgress' = Progress(0, 0, "scanning")
    /\ FlagsUnchanged

\* store.stopAnalysis()
StoreStopAnalysis ==
    /\ StopAnalysis
    /\ FlagsUnchanged

FlagsInit ==
    /\ photos = <<>> /\ hashOf = EmptyMap /\ createdAt = EmptyMap
    /\ threshold = DEFAULT_THRESHOLD
    /\ hardwareConcurrency = 0
    /\ Idle
    /\ SideIdle
    /\ cPc = "off"
    /\ cOut = NoOutput

FlagsNext ==
    \/ \E progress \in ProgressValues : StoreSetAnalysisProgress(progress)
    \/ StoreStartAnalysis
    \/ StoreStopAnalysis

SpecFlags == FlagsInit /\ [][FlagsNext]_vars

----------------------------------------------------------------------------
(* C36 *)

\* C36: after any sequence of setAnalysisProgress, startAnalysis and
\* stopAnalysis, isAnalyzing is true exactly when the status of
\* analysisProgress is neither 'idle' nor 'complete'.
C36_AnalyzingIffActiveStatus ==
    isAnalyzing <=> analysisProgress.status \notin {"idle", "complete"}

\* the store after a 'complete' progress, and not as stopAnalysis leaves it
C36_Witness ==
    /\ analysisProgress.status = "complete"
    /\ analysisProgress.total > 0
    /\ ~isAnalyzing

----------------------------------------------------------------------------
(* C37 *)

\* the image is split into blocks
LargeEnoughForBlocks ==
    /\ exPc = "done" /\ image.decodable
    /\ (image.w - 2) \div BLOCKS >= 4 /\ (image.h - 2) \div BLOCKS >= 4

\* the blocks whose loops visit pixel (x, y)
BlocksOf(w, h, x, y) ==
    {b \in 1..(BLOCKS * BLOCKS) :
        LET r == BlockBounds(w, h, (w - 2) \div BLOCKS, (h - 2) \div BLOCKS, b)
        IN  r.x0 <= x /\ x < r.x1 /\ r.y0 <= y /\ y < r.y1}

RECURSIVE CountBlocks(_, _, _, _)
CountBlocks(gray, w, h, b) ==
    IF b = 0 THEN 0
    ELSE BlockStats(gray, w, h, (w - 2) \div BLOCKS, (h - 2) \div BLOCKS,
                    b).count
         + CountBlocks(gray, w, h, b - 1)

\* C37: when the image is large enough to subdivide, every interior pixel
\* belongs to exactly one of the 4x4 blocks, no other pixel belongs to one,
\* and the global variance is taken over (w-2)(h-2) pixels.
C37_BlocksPartitionInterior ==
    LargeEnoughForBlocks =>
        /\ \A x \in 0..(image.w - 1), y \in 0..(image.h - 1) :
              Cardinality(BlocksOf(image.w, image.h, x, y)) =
                  IF 1 <= x /\ x <= image.w - 2 /\ 1 <= y /\ y <= image.h - 2
                  THEN 1 ELSE 0
        /\ CountBlocks(image.gray, image.w, image.h, BLOCKS * BLOCKS)
              = (image.w - 2) * (image.h - 2)

\* an image scored by blocks whose interior width is no multiple of BLOCKS
C37_Witness ==
    /\ LargeEnoughForBlocks
    /\ exOut.type = "result"
    /\ (image.w - 2) % BLOCKS = 3
    /\ (image.h - 2) % BLOCKS = 1

====
